---- MODULE Spec2Model ----
(***************************************************************************)
(* Model of the authenticated API client (src/src/utils/api.ts) and of the *)
(* result handling of the creation screens.                                *)
(*                                                                         *)
(* The client is a set of async functions over two module-level variables  *)
(* (authToken, userData) mirrored to AsyncStorage.  JavaScript runs one    *)
(* continuation at a time; a call suspends exactly at its awaits (durable  *)
(* storage I/O and fetch).  Each action below is either the synchronous    *)
(* prefix of a call (up to its first pending await) or the continuation    *)
(* that runs when the awaited I/O settles, with the outcome of the I/O     *)
(* chosen nondeterministically.                                            *)
(***************************************************************************)
EXTENDS Integers, Sequences, FiniteSets, TLC

\* Number of calls of the credential store that may be in progress at the
\* same time (SpecStore).
MaxCalls == 2

\* Number of reads of the store in progress around a login or logout
\* (SpecSession), and of authenticated operations in progress around a change
\* of the token (SpecAuth).
MaxReaders == 1
MaxAuthCalls == 1
\* fetchTodayAttendance calls of one screen in flight at once.
MaxFetches == 2

CallIds == 1..MaxCalls

\* The login/logout flow of the App: App.tsx shows either LoginScreen or
\* HomeScreen, so one verifyOTP or logout runs at a time; it has its own slot.
Session == 0

\* The slot of the one authenticated operation a screen has in progress while
\* the session flow runs (SpecApi).
Worker == 1
AllCalls == {Session} \cup CallIds \cup (1..MaxReaders) \cup (1..MaxAuthCalls)

\* JavaScript null and undefined.
Null == "null"
Undefined == "undefined"

\* Values of the token and of the user object carried by server responses.
Tokens == {"t1", "t2"}
Users == {"u1", "u2"}

AUTH_TOKEN_KEY == "auth_token"
USER_DATA_KEY == "user_data"

\* JSON.stringify / JSON.parse on the user object: the stored form is a
\* string, distinct from the object; parsing a string that is not JSON throws.
Corrupt == "{oops"
JSONstringify(u) == "{\"id\":\"" \o u \o "\"}"
JSONparse(s) == CHOOSE u \in Users : JSONstringify(u) = s

\* JavaScript truthiness of the values a credential slot can hold.
Truthy(v) == v \notin {Null, Undefined, ""}

VARIABLES
  authToken,   \* api.ts: let authToken
  userData,    \* api.ts: let userData
  storage,     \* AsyncStorage: key -> stored string or Null
  calls,       \* the calls in progress: operation, await position, locals
  ret,         \* the call that returned in the last step, with its result
  tokHist,     \* history: the last setAuthToken/clearAuthToken call made
  usrHist,     \* history: the last setUserData/clearUserData call made
  intf,        \* history: another call wrote the in-memory credential meanwhile
  seen,        \* history: the token getAuthToken last returned since the last
               \* setAuthToken/clearAuthToken call, "none" when there is none
  form,        \* the creation screen shown: busy flag, call in progress, alert
  app          \* App.tsx: the startup restore in progress, isLoggedIn

vars == <<authToken, userData, storage, calls, ret, tokHist, usrHist, intf, seen, form, app>>
storeVars == <<authToken, userData, storage, calls, ret, tokHist, usrHist, intf, seen, app>>

NoBody == [token |-> Undefined, user |-> Undefined]
NoReq == [url |-> "none", method |-> "none", auth |-> <<>>, body |-> {}]

\* A call slot that holds no call.
IdleCall ==
  [op |-> "none", pc |-> "idle", arg |-> Null, tok |-> Null, body |-> NoBody,
   rcv |-> NoBody, req |-> NoReq, nf |-> 0, net |-> "none", at |-> "none", seen |-> "none"]

NewCall(op, pc) == [IdleCall EXCEPT !.op = op, !.pc = pc]

\* No call returned in the last step.
NoRet ==
  [op |-> "none", st |-> "none", val |-> Null, tok |-> Null, body |-> NoBody,
   rcv |-> NoBody, nf |-> 0, net |-> "none", at |-> "none", intf |-> FALSE, seen |-> "none",
   resp |-> [kind |-> "none", parses |-> FALSE, error |-> Undefined, token |-> Undefined,
             user |-> Undefined]]

Free(c) == calls[c].pc = "idle"

\* History bookkeeping.  tokHist / usrHist name the last mutating call made on
\* the slot: a set with its value, a clear still "clearing" or completed
\* ("clear"); "none" before any such call and after the continuation of a
\* durable read has assigned the slot.  intf[d] is raised for a verifyOTP or
\* logout call d in progress when another call assigns authToken or userData.
Mark(c, wrote) ==
  [d \in AllCalls |->
     IF d = c THEN intf[c]
     ELSE IF wrote /\ calls[d].op \in {"verifyOTP", "logout"} THEN TRUE ELSE intf[d]]

Unmark(c) == [intf EXCEPT ![c] = FALSE]

Cleared(h) == IF h = "clearing" THEN "clear" ELSE h

\* seen after getAuthToken has returned val; the calls in progress once a
\* setAuthToken or clearAuthToken call is made (what they had seen is void).
Seen(val) == IF val \notin {Null, Undefined, ""} THEN val ELSE seen
Forget(cs) == [d \in AllCalls |-> [cs[d] EXCEPT !.seen = "none"]]

\* AsyncStorage.setItem / removeItem: the durable effect takes place when the
\* operation settles successfully; a rejected operation changes nothing.
setItem(key, value, ok) == IF ok THEN [storage EXCEPT ![key] = value] ELSE storage
removeItem(key, ok) == IF ok THEN [storage EXCEPT ![key] = Null] ELSE storage

\* A body as a screen receives it from createAMC, createCustomer, ...
NoResult == [success |-> "none", message |-> <<"undefined">>, msg |-> <<"undefined">>, error |-> <<"undefined">>]
NoAlert == [kind |-> "none", msg |-> <<>>]

NoForm == [site |-> "none", pc |-> "idle", busy |-> FALSE, alert |-> NoAlert, result |-> NoResult,
           refresh |-> "none", fields |-> [site |-> "none"], error |-> <<"undefined">>]


\* The continuation of the App (the caller on the session slot) once the call
\* it awaits has returned r: checkExistingAuth lines 18-32, handleVerifyOTP
\* lines 94-97 of LoginScreen.tsx with handleLogin lines 38-43 (user.phone_number
\* throws when the body holds no user, and the catch shows the error),
\* handleLogout lines 45-53.
AppAfter(c, r) ==
  IF c # Session \/ app.pc = "off" \/ r.op = "none" THEN app
  ELSE CASE r.op = "getAuthToken" /\ app.pc = "start" ->
              IF r.st = "resolved" THEN [app EXCEPT !.pc = "restoreUser", !.token = r.val]
                                   ELSE [app EXCEPT !.pc = "ready"]
         [] r.op = "getUserData" /\ app.pc = "restoreUser" ->
              [app EXCEPT !.pc = "ready", !.token = Null,
                          !.isLoggedIn = r.st = "resolved" /\ Truthy(app.token) /\ Truthy(r.val)]
         [] r.op = "verifyOTP" /\ app.pc = "ready" ->
              [app EXCEPT !.isLoggedIn = IF r.st = "resolved" /\ Truthy(r.body.user) THEN TRUE ELSE @]
         [] r.op = "logout" /\ app.pc = "ready" -> [app EXCEPT !.isLoggedIn = FALSE]
         [] OTHER -> app

Init ==
  /\ authToken = Null
  /\ userData = Null
  /\ storage \in [{AUTH_TOKEN_KEY, USER_DATA_KEY} ->
                    {Null, Corrupt} \cup Tokens \cup {JSONstringify(u) : u \in Users}]
  /\ storage[AUTH_TOKEN_KEY] \in {Null} \cup Tokens
  /\ storage[USER_DATA_KEY] \in {Null, Corrupt} \cup {JSONstringify(u) : u \in Users}
  /\ calls = [c \in AllCalls |-> IdleCall]
  /\ ret = NoRet
  /\ tokHist = "none"
  /\ usrHist = "none"
  /\ intf = [c \in AllCalls |-> FALSE]
  /\ seen = "none"
  /\ form = NoForm
  \* App.tsx lines 11-13, before the component is mounted.  pc follows
  \* checkExistingAuth: "start" until getAuthToken has returned, "restoreUser"
  \* until getUserData has, "ready" once isLoading is false.
  /\ app = [pc |-> "off", isLoggedIn |-> FALSE, token |-> Null]

\* Call c returns: its slot is free again and ret shows the result.
Return(c, r) ==
  /\ calls' = [calls EXCEPT ![c] = IdleCall]
  /\ ret' = r

Result(op, st, val) == [NoRet EXCEPT !.op = op, !.st = st, !.val = val]

----
\* setAuthToken: the memory slot is assigned before the durable write is awaited.
setAuthToken(c, token) ==
  /\ Free(c)
  /\ authToken' = token
  /\ calls' = Forget([calls EXCEPT ![c] = [NewCall("setAuthToken", "setItem") EXCEPT !.arg = token]])
  /\ ret' = NoRet
  /\ tokHist' = token
  /\ intf' = Mark(c, TRUE)
  /\ UNCHANGED <<userData, storage, usrHist>>
  /\ seen' = "none"
  /\ UNCHANGED form
  /\ app' = AppAfter(c, ret')

setAuthTokenSettled(c, ok) ==
  /\ calls[c].op = "setAuthToken" /\ calls[c].pc = "setItem"
  /\ storage' = setItem(AUTH_TOKEN_KEY, calls[c].arg, ok)
  /\ Return(c, Result("setAuthToken", "resolved", Undefined))
  /\ UNCHANGED <<authToken, userData, tokHist, usrHist, intf>>
  /\ UNCHANGED <<form, seen>>
  /\ app' = AppAfter(c, ret')

\* A getAuthToken that never answers from the memory slot.
TokenHit_NoCache == FALSE

\* getAuthToken, line 42: the memory slot is used when it is truthy.
TokenHit == Truthy(authToken)

\* A getAuthToken without its try/catch: the failure of the read is thrown on.
TokenLoaded_NoCatch(ok) ==
  IF ok THEN [ret |-> storage[AUTH_TOKEN_KEY], mem |-> storage[AUTH_TOKEN_KEY], st |-> "resolved"]
        ELSE [ret |-> "getItem failed", mem |-> authToken, st |-> "rejected"]

\* getAuthToken, lines 46-53: what the durable read yields (the value returned
\* and the new memory slot).  A failed read returns null and caches nothing.
TokenLoaded(ok) ==
  IF ok THEN [ret |-> storage[AUTH_TOKEN_KEY], mem |-> storage[AUTH_TOKEN_KEY], st |-> "resolved"]
        ELSE [ret |-> Null, mem |-> authToken, st |-> "resolved"]

\* History after the continuation of a durable read has run.
ReadHist(h, wrote) == IF wrote THEN "none" ELSE h

getAuthToken(c) ==
  /\ Free(c)
  /\ IF TokenHit
     THEN /\ ret' = [Result("getAuthToken", "resolved", authToken) EXCEPT !.at = tokHist, !.seen = seen]
          /\ seen' = Seen(authToken)
          /\ UNCHANGED calls
     ELSE /\ calls' = [calls EXCEPT ![c] = [NewCall("getAuthToken", "getItem") EXCEPT !.at = tokHist, !.seen = seen]]
          /\ ret' = NoRet
          /\ UNCHANGED seen
  /\ UNCHANGED <<authToken, userData, storage, tokHist, usrHist, intf>>
  /\ UNCHANGED form
  /\ app' = AppAfter(c, ret')

\* A getAuthToken that returns what it read without keeping it in memory.
getAuthTokenSettled_NoCache(c, ok) ==
  /\ calls[c].op = "getAuthToken" /\ calls[c].pc = "getItem"
  /\ Return(c, [Result("getAuthToken", TokenLoaded(ok).st, TokenLoaded(ok).ret) EXCEPT
                  !.at = calls[c].at, !.seen = calls[c].seen,
                  !.net = IF ok THEN "resolve" ELSE "reject"])
  /\ tokHist' = ReadHist(tokHist, ok)
  /\ intf' = Mark(c, ok)
  /\ UNCHANGED <<authToken, userData, storage, usrHist>>
  /\ seen' = Seen(TokenLoaded(ok).ret)
  /\ UNCHANGED form
  /\ app' = AppAfter(c, ret')

getAuthTokenSettled(c, ok) ==
  /\ calls[c].op = "getAuthToken" /\ calls[c].pc = "getItem"
  /\ authToken' = TokenLoaded(ok).mem
  /\ Return(c, [Result("getAuthToken", TokenLoaded(ok).st, TokenLoaded(ok).ret) EXCEPT
                  !.at = calls[c].at, !.seen = calls[c].seen,
                  !.net = IF ok THEN "resolve" ELSE "reject"])
  /\ tokHist' = ReadHist(tokHist, ok)
  /\ intf' = Mark(c, ok)
  /\ UNCHANGED <<userData, storage, usrHist>>
  /\ seen' = Seen(TokenLoaded(ok).ret)
  /\ UNCHANGED form
  /\ app' = AppAfter(c, ret')

clearAuthToken(c) ==
  /\ Free(c)
  /\ authToken' = Null
  /\ calls' = Forget([calls EXCEPT ![c] = NewCall("clearAuthToken", "removeItem")])
  /\ ret' = NoRet
  /\ tokHist' = "clearing"
  /\ intf' = Mark(c, TRUE)
  /\ UNCHANGED <<userData, storage, usrHist>>
  /\ seen' = "none"
  /\ UNCHANGED form
  /\ app' = AppAfter(c, ret')

clearAuthTokenSettled(c, ok) ==
  /\ calls[c].op = "clearAuthToken" /\ calls[c].pc = "removeItem"
  /\ storage' = removeItem(AUTH_TOKEN_KEY, ok)
  /\ Return(c, Result("clearAuthToken", "resolved", Undefined))
  /\ tokHist' = Cleared(tokHist)
  /\ UNCHANGED <<authToken, userData, usrHist, intf>>
  /\ UNCHANGED <<form, seen>>
  /\ app' = AppAfter(c, ret')

setUserData(c, user) ==
  /\ Free(c)
  /\ userData' = user
  /\ calls' = [calls EXCEPT ![c] = [NewCall("setUserData", "setItem") EXCEPT !.arg = user]]
  /\ ret' = NoRet
  /\ usrHist' = user
  /\ intf' = Mark(c, TRUE)
  /\ UNCHANGED <<authToken, storage, tokHist>>
  /\ UNCHANGED <<form, seen>>
  /\ app' = AppAfter(c, ret')

setUserDataSettled(c, ok) ==
  /\ calls[c].op = "setUserData" /\ calls[c].pc = "setItem"
  /\ storage' = setItem(USER_DATA_KEY, JSONstringify(calls[c].arg), ok)
  /\ Return(c, Result("setUserData", "resolved", Undefined))
  /\ UNCHANGED <<authToken, userData, tokHist, usrHist, intf>>
  /\ UNCHANGED <<form, seen>>
  /\ app' = AppAfter(c, ret')

\* getUserData, lines 79-88: the slot is assigned only when a stored string
\* was read and parsed; a failed read, an absent entry and a parse error all
\* return null and leave the slot alone.
UserLoaded(ok) ==
  IF ok /\ Truthy(storage[USER_DATA_KEY]) /\ (\E u \in Users : JSONstringify(u) = storage[USER_DATA_KEY])
  THEN [ret |-> JSONparse(storage[USER_DATA_KEY]), mem |-> JSONparse(storage[USER_DATA_KEY]), wrote |-> TRUE]
  ELSE [ret |-> Null, mem |-> userData, wrote |-> FALSE]

getUserData(c) ==
  /\ Free(c)
  /\ IF Truthy(userData)
     THEN /\ ret' = [Result("getUserData", "resolved", userData) EXCEPT !.at = usrHist]
          /\ UNCHANGED calls
     ELSE /\ calls' = [calls EXCEPT ![c] = [NewCall("getUserData", "getItem") EXCEPT !.at = usrHist]]
          /\ ret' = NoRet
  /\ UNCHANGED <<authToken, userData, storage, tokHist, usrHist, intf>>
  /\ UNCHANGED <<form, seen>>
  /\ app' = AppAfter(c, ret')

getUserDataSettled(c, ok) ==
  /\ calls[c].op = "getUserData" /\ calls[c].pc = "getItem"
  /\ userData' = UserLoaded(ok).mem
  /\ Return(c, [Result("getUserData", "resolved", UserLoaded(ok).ret) EXCEPT
                  !.at = calls[c].at, !.net = IF ok THEN "resolve" ELSE "reject"])
  /\ usrHist' = ReadHist(usrHist, UserLoaded(ok).wrote)
  /\ intf' = Mark(c, UserLoaded(ok).wrote)
  /\ UNCHANGED <<authToken, storage, tokHist>>
  /\ UNCHANGED <<form, seen>>
  /\ app' = AppAfter(c, ret')

clearUserData(c) ==
  /\ Free(c)
  /\ userData' = Null
  /\ calls' = [calls EXCEPT ![c] = NewCall("clearUserData", "removeItem")]
  /\ ret' = NoRet
  /\ usrHist' = "clearing"
  /\ intf' = Mark(c, TRUE)
  /\ UNCHANGED <<authToken, storage, tokHist>>
  /\ UNCHANGED <<form, seen>>
  /\ app' = AppAfter(c, ret')

clearUserDataSettled(c, ok) ==
  /\ calls[c].op = "clearUserData" /\ calls[c].pc = "removeItem"
  /\ storage' = removeItem(USER_DATA_KEY, ok)
  /\ Return(c, Result("clearUserData", "resolved", Undefined))
  /\ usrHist' = Cleared(usrHist)
  /\ UNCHANGED <<authToken, userData, tokHist, intf>>
  /\ UNCHANGED <<form, seen>>
  /\ app' = AppAfter(c, ret')

----
\* The credential store on its own: overlapping calls of its six functions.
NextStore ==
  \E c \in CallIds :
    \/ \E t \in Tokens : setAuthToken(c, t)
    \/ \E ok \in BOOLEAN : setAuthTokenSettled(c, ok)
    \/ getAuthToken(c)
    \/ \E ok \in BOOLEAN : getAuthTokenSettled(c, ok)
    \/ clearAuthToken(c)
    \/ \E ok \in BOOLEAN : clearAuthTokenSettled(c, ok)
    \/ \E u \in Users : setUserData(c, u)
    \/ \E ok \in BOOLEAN : setUserDataSettled(c, ok)
    \/ getUserData(c)
    \/ \E ok \in BOOLEAN : getUserDataSettled(c, ok)
    \/ clearUserData(c)
    \/ \E ok \in BOOLEAN : clearUserDataSettled(c, ok)

SpecStore == Init /\ [][NextStore]_vars

\* The mutating calls alone, every durable write and removal succeeding.
NextWrites ==
  \E c \in CallIds :
    \/ \E t \in Tokens : setAuthToken(c, t)
    \/ setAuthTokenSettled(c, TRUE)
    \/ clearAuthToken(c)
    \/ clearAuthTokenSettled(c, TRUE)
    \/ \E u \in Users : setUserData(c, u)
    \/ setUserDataSettled(c, TRUE)
    \/ clearUserData(c)
    \/ clearUserDataSettled(c, TRUE)

SpecWrites == Init /\ [][NextWrites]_vars

\* The reading calls alone: nothing sets or clears the credentials meanwhile.
NextReads ==
  \E c \in CallIds :
    \/ getAuthToken(c)
    \/ \E ok \in BOOLEAN : getAuthTokenSettled(c, ok)
    \/ getUserData(c)
    \/ \E ok \in BOOLEAN : getUserDataSettled(c, ok)

SpecReads == Init /\ [][NextReads]_vars

\* A getAuthToken call made while no clearAuthToken call is in progress.
getAuthTokenBeforeClear(c) == calls[Session].op # "clearAuthToken" /\ getAuthToken(c)

\* Reads of the token started before a clearAuthToken call, settling around it.
NextClear ==
  \/ \E c \in CallIds : getAuthTokenBeforeClear(c)
  \/ \E c \in CallIds, ok \in BOOLEAN : getAuthTokenSettled(c, ok)
  \/ clearAuthToken(Session)
  \/ \E ok \in BOOLEAN : clearAuthTokenSettled(Session, ok)

SpecClear == Init /\ [][NextClear]_vars

----
\* API_ENDPOINTS and the fetch options of each operation.
AuthOps ==
  {"getAssignedComplaints", "updateComplaintStatus", "getComplaintCustomers",
   "getComplaintTypes", "getComplaintPriorities", "getComplaintExecutives",
   "createComplaint"}

Endpoint(op) ==
  CASE op = "generateOTP" -> "/auth/api/mobile/generate-otp/"
    [] op = "verifyOTP" -> "/auth/api/mobile/verify-otp/"
    [] op = "resendOTP" -> "/auth/api/mobile/resend-otp/"
    [] op = "logout" -> "/auth/api/mobile/logout/"
    [] op = "getAssignedComplaints" -> "/complaints/api/complaints/assigned/"
    [] op = "updateComplaintStatus" -> "/complaints/api/complaints/update-status/<reference>/"
    [] op = "getComplaintCustomers" -> "/complaints/api/complaints/customers/"
    [] op = "getComplaintTypes" -> "/complaints/api/complaints/types/"
    [] op = "getComplaintPriorities" -> "/complaints/api/complaints/priorities/"
    [] op = "getComplaintExecutives" -> "/complaints/api/complaints/executives/"
    [] op = "createComplaint" -> "/complaints/create/"

\* The fallback message of each authenticated operation (error.error || ...).
Fallback(op) ==
  CASE op = "getAssignedComplaints" -> "Failed to fetch assigned complaints"
    [] op = "updateComplaintStatus" -> "Failed to update complaint"
    [] op = "getComplaintCustomers" -> "Failed to fetch customers"
    [] op = "getComplaintTypes" -> "Failed to fetch complaint types"
    [] op = "getComplaintPriorities" -> "Failed to fetch priorities"
    [] op = "getComplaintExecutives" -> "Failed to fetch executives"
    [] op = "createComplaint" -> "Failed to create complaint"

AuthRequired == "No authentication token available"

\* 'Authorization': `Token ${token}`
AuthHeader(token) == <<"Authorization", "Token " \o token>>

Request(op, auth) == [url |-> Endpoint(op), method |-> (IF op \in {"getAssignedComplaints", "getComplaintCustomers", "getComplaintTypes", "getComplaintPriorities", "getComplaintExecutives"} THEN "GET" ELSE "POST"), auth |-> auth, body |-> {}]

\* The arguments of the OTP operations: the code typed, the contact and the
\* channel selector, as LoginScreen passes them once validateContact accepted
\* the contact for the channel.
OtpArgs ==
  {[otp_code |-> "123456", contact |-> "9876543210", method |-> "phone"],
   [otp_code |-> "123456", contact |-> "a@b.co", method |-> "email"]}

\* An OTP body that names the contact under both keys.
OtpBody_BothKeys(op, args) ==
  {<<"email", args.contact>>, <<"phone_number", args.contact>>}
    \cup (IF op = "verifyOTP" THEN {<<"otp_code", args.otp_code>>} ELSE {})

\* generateOTP lines 146-148, verifyOTP lines 171-173, resendOTP lines
\* 205-207: the entries of the object passed to JSON.stringify.
OtpBody(op, args) ==
  (IF args.method = "email" THEN {<<"email", args.contact>>}
                            ELSE {<<"phone_number", args.contact>>})
    \cup (IF op = "verifyOTP" THEN {<<"otp_code", args.otp_code>>} ELSE {})

NetworkError == "Network request failed"
SyntaxError == "JSON Parse error"

Resp(kind, parses, error, token, user) ==
  [kind |-> kind, parses |-> parses, error |-> error, token |-> token, user |-> user]

ErrorResponses ==
  {Resp("reject", FALSE, Undefined, Undefined, Undefined),
   Resp("notok", FALSE, Undefined, Undefined, Undefined),
   Resp("notok", TRUE, Undefined, Undefined, Undefined),
   Resp("notok", TRUE, "server says no", Undefined, Undefined),
   Resp("ok", FALSE, Undefined, Undefined, Undefined)}

VerifyResponses ==
  ErrorResponses \cup
  {Resp("ok", TRUE, Undefined, t, u) : t \in Tokens \cup {Undefined}, u \in Users \cup {Undefined}}

AuthResponses == ErrorResponses \cup {Resp("ok", TRUE, Undefined, Undefined, Undefined)}


----
\* verifyOTP, lines 166-181: the request is issued without reading the store.
verifyOTP(c, args) ==
  /\ Free(c)
  /\ calls' = [calls EXCEPT ![c] =
       [NewCall("verifyOTP", "fetch") EXCEPT
          !.arg = args, !.req = [Request("verifyOTP", <<>>) EXCEPT !.body = OtpBody("verifyOTP", args)],
          !.nf = 1]]
  /\ ret' = NoRet
  /\ intf' = Unmark(c)
  /\ UNCHANGED <<authToken, userData, storage, tokHist, usrHist>>
  /\ UNCHANGED <<form, seen>>
  /\ app' = AppAfter(c, ret')

\* A verifyOTP that stores the token only.
StoresUser_Never(result) == FALSE

StoresUser(result) == Truthy(result.user)

VerifyReturn(c, st, val, result, rcv) ==
  [Result("verifyOTP", st, val) EXCEPT
     !.body = result, !.rcv = rcv, !.intf = intf[c], !.nf = calls[c].nf]

\* verifyOTP, lines 194-198, with the local result and the body received.
verifyOTPStoreUser(c, result, rcv) ==
  IF StoresUser(result)
  THEN /\ userData' = result.user
       /\ usrHist' = result.user
       /\ calls' = [calls EXCEPT ![c].pc = "setItemUser", ![c].body = result, ![c].rcv = rcv]
       /\ ret' = NoRet
       /\ intf' = Mark(c, TRUE)
  ELSE /\ Return(c, VerifyReturn(c, "resolved", "result", result, rcv))
       /\ intf' = Unmark(c)
       /\ UNCHANGED <<userData, usrHist>>

\* verifyOTP, lines 175-196: the fetch settles.
verifyOTPResponse(c, r) ==
  /\ calls[c].op = "verifyOTP" /\ calls[c].pc = "fetch"
  /\ IF r.kind = "ok" /\ r.parses
     THEN LET result == [token |-> r.token, user |-> r.user] IN
          IF Truthy(result.token)
          THEN /\ authToken' = result.token
               /\ tokHist' = result.token
               /\ calls' = Forget([calls EXCEPT ![c].pc = "setItemToken", ![c].body = result, ![c].rcv = result])
               /\ seen' = "none"
               /\ ret' = NoRet
               /\ intf' = Mark(c, TRUE)
               /\ UNCHANGED <<userData, usrHist>>
          ELSE /\ verifyOTPStoreUser(c, result, result)
               /\ UNCHANGED <<authToken, tokHist, seen>>
     ELSE /\ Return(c, [VerifyReturn(c, "rejected",
                           CASE r.kind = "reject" -> NetworkError
                             [] r.kind # "reject" /\ ~r.parses -> SyntaxError
                             [] OTHER -> (IF r.error = Undefined THEN "" ELSE r.error),
                           NoBody, NoBody) EXCEPT !.resp = r])
          /\ intf' = Unmark(c)
          /\ UNCHANGED <<authToken, userData, tokHist, usrHist, seen>>
  /\ UNCHANGED storage
  /\ UNCHANGED form
  /\ app' = AppAfter(c, ret')

\* verifyOTP, line 192 resumes: the token write has settled; then lines 194-198.
verifyOTPTokenSaved(c, ok) ==
  /\ calls[c].op = "verifyOTP" /\ calls[c].pc = "setItemToken"
  /\ storage' = setItem(AUTH_TOKEN_KEY, calls[c].body.token, ok)
  /\ verifyOTPStoreUser(c, calls[c].body, calls[c].rcv)
  /\ UNCHANGED <<authToken, tokHist>>
  /\ UNCHANGED <<form, seen>>
  /\ app' = AppAfter(c, ret')

\* verifyOTP, line 195 resumes: the user write has settled; line 198 returns.
verifyOTPUserSaved(c, ok) ==
  /\ calls[c].op = "verifyOTP" /\ calls[c].pc = "setItemUser"
  /\ storage' = setItem(USER_DATA_KEY, JSONstringify(calls[c].body.user), ok)
  /\ Return(c, VerifyReturn(c, "resolved", "result", calls[c].body, calls[c].rcv))
  /\ intf' = Unmark(c)
  /\ UNCHANGED <<authToken, userData, tokHist, usrHist>>
  /\ UNCHANGED <<form, seen>>
  /\ app' = AppAfter(c, ret')

----
\* logout, lines 250-260: the remote call sits in a try/catch; a rejected
\* fetch is caught and a non-2xx response is not looked at.
LogoutThrows_NoCatch(net) == net = "reject"

LogoutThrows(net) == FALSE

\* logout, lines 248-257: getAuthToken answers from memory, or starts a read.
logout(c) ==
  /\ Free(c)
  /\ calls' = [calls EXCEPT ![c] =
       IF TokenHit
       THEN [NewCall("logout", "fetch") EXCEPT
               !.tok = authToken, !.req = Request("logout", AuthHeader(authToken)), !.nf = 1]
       ELSE NewCall("logout", "getItem")]
  /\ ret' = NoRet
  /\ intf' = Unmark(c)
  /\ UNCHANGED <<authToken, userData, storage, tokHist, usrHist>>
  /\ seen' = IF TokenHit THEN Seen(authToken) ELSE seen
  /\ UNCHANGED form
  /\ app' = AppAfter(c, ret')

\* A logout that notifies the backend whether or not it found a token.
logoutTokenRead_NoCheck(c, ok) ==
  /\ calls[c].op = "logout" /\ calls[c].pc = "getItem"
  /\ authToken' = TokenLoaded(ok).mem
  /\ tokHist' = ReadHist(tokHist, ok)
  /\ calls' = [calls EXCEPT ![c].pc = "fetch", ![c].tok = TokenLoaded(ok).ret,
                 ![c].req = Request("logout", AuthHeader(TokenLoaded(ok).ret)), ![c].nf = 1]
  /\ intf' = Mark(c, ok)
  /\ seen' = Seen(TokenLoaded(ok).ret)
  /\ ret' = NoRet
  /\ UNCHANGED <<userData, storage, usrHist>>
  /\ UNCHANGED form
  /\ app' = AppAfter(c, ret')

\* logout, lines 248-262 after the durable read: with a token the remote call
\* is issued; without one clearAuthToken runs up to its await.
logoutTokenRead(c, ok) ==
  /\ calls[c].op = "logout" /\ calls[c].pc = "getItem"
  /\ IF Truthy(TokenLoaded(ok).ret)
     THEN /\ authToken' = TokenLoaded(ok).mem
          /\ tokHist' = ReadHist(tokHist, ok)
          /\ calls' = [calls EXCEPT ![c].pc = "fetch", ![c].tok = TokenLoaded(ok).ret,
                         ![c].req = Request("logout", AuthHeader(TokenLoaded(ok).ret)), ![c].nf = 1]
          /\ intf' = Mark(c, ok)
          /\ seen' = Seen(TokenLoaded(ok).ret)
     ELSE /\ authToken' = Null
          /\ tokHist' = "clearing"
          /\ calls' = Forget([calls EXCEPT ![c].pc = "removeToken"])
          /\ seen' = "none"
          /\ intf' = Mark(c, TRUE)
  /\ ret' = NoRet
  /\ UNCHANGED <<userData, storage, usrHist>>
  /\ UNCHANGED form
  /\ app' = AppAfter(c, ret')

\* logout, lines 251-262: the remote call settles, then clearAuthToken runs
\* up to its await.
logoutFetchSettled(c, net) ==
  /\ calls[c].op = "logout" /\ calls[c].pc = "fetch"
  /\ IF LogoutThrows(net)
     THEN /\ Return(c, [Result("logout", "rejected", NetworkError) EXCEPT !.nf = calls[c].nf, !.net = net, !.intf = intf[c]])
          /\ intf' = Unmark(c)
          /\ UNCHANGED <<authToken, tokHist, seen>>
     ELSE /\ authToken' = Null
          /\ tokHist' = "clearing"
          /\ calls' = Forget([calls EXCEPT ![c].pc = "removeToken", ![c].net = net, ![c].tok = Null,
                                      ![c].req = NoReq])
          /\ seen' = "none"
          /\ ret' = NoRet
          /\ intf' = Mark(c, TRUE)
  /\ UNCHANGED <<userData, storage, usrHist>>
  /\ UNCHANGED form
  /\ app' = AppAfter(c, ret')

\* logout, lines 262-263: the token removal has settled; clearUserData runs
\* up to its await.
logoutTokenRemoved(c, ok) ==
  /\ calls[c].op = "logout" /\ calls[c].pc = "removeToken"
  /\ storage' = removeItem(AUTH_TOKEN_KEY, ok)
  /\ tokHist' = Cleared(tokHist)
  /\ userData' = Null
  /\ usrHist' = "clearing"
  /\ calls' = [calls EXCEPT ![c].pc = "removeUser"]
  /\ ret' = NoRet
  /\ intf' = Mark(c, TRUE)
  /\ UNCHANGED authToken
  /\ UNCHANGED <<form, seen>>
  /\ app' = AppAfter(c, ret')

\* logout, lines 263-264: the user removal has settled; logout resolves.
logoutUserRemoved(c, ok) ==
  /\ calls[c].op = "logout" /\ calls[c].pc = "removeUser"
  /\ storage' = removeItem(USER_DATA_KEY, ok)
  /\ usrHist' = Cleared(usrHist)
  /\ Return(c, [Result("logout", "resolved", Undefined) EXCEPT !.nf = calls[c].nf, !.net = calls[c].net, !.intf = intf[c]])
  /\ intf' = Unmark(c)
  /\ UNCHANGED <<authToken, userData, tokHist>>
  /\ UNCHANGED <<form, seen>>
  /\ app' = AppAfter(c, ret')

----
\* Authenticated operations, e.g. getAssignedComplaints lines 226-237.
NoToken_Unchecked(token) == FALSE

NoToken(token) == ~Truthy(token)

AuthReturn(c, op, st, val, token) ==
  [Result(op, st, val) EXCEPT !.tok = IF Truthy(token) THEN "token" ELSE token, !.nf = calls[c].nf]

\* Lines 227-237 with the token getAuthToken returned: reject, or issue the
\* request with the Authorization header.
authAfterToken(c, op, token) ==
  IF NoToken(token)
  THEN Return(c, AuthReturn(c, op, "rejected", AuthRequired, token))
  ELSE /\ calls' = [calls EXCEPT ![c] =
            [NewCall(op, "fetch") EXCEPT
               !.tok = token, !.req = Request(op, AuthHeader(token)), !.nf = calls[c].nf + 1]]
       /\ ret' = NoRet

authOp(c, op) ==
  /\ Free(c)
  /\ IF TokenHit
     THEN authAfterToken(c, op, authToken)
     ELSE /\ calls' = [calls EXCEPT ![c] = NewCall(op, "getItem")]
          /\ ret' = NoRet
  /\ UNCHANGED <<authToken, userData, storage, tokHist, usrHist, intf>>
  /\ seen' = IF TokenHit THEN Seen(authToken) ELSE seen
  /\ UNCHANGED form
  /\ app' = AppAfter(c, ret')

authOpTokenRead(c, ok) ==
  /\ calls[c].op \in AuthOps /\ calls[c].pc = "getItem"
  /\ authToken' = TokenLoaded(ok).mem
  /\ tokHist' = ReadHist(tokHist, ok)
  /\ intf' = Mark(c, ok)
  /\ authAfterToken(c, calls[c].op, TokenLoaded(ok).ret)
  /\ UNCHANGED <<userData, storage, usrHist>>
  /\ seen' = Seen(TokenLoaded(ok).ret)
  /\ UNCHANGED form
  /\ app' = AppAfter(c, ret')

\* Lines 239-244: the fetch settles.  response.json() of a body that is not
\* JSON rejects, inside the !response.ok branch too.
authOpSettle(c, r) ==
  /\ calls[c].op \in AuthOps /\ calls[c].pc = "fetch"
  /\ Return(c,
       [(CASE r.kind = "reject" -> AuthReturn(c, calls[c].op, "rejected", NetworkError, calls[c].tok)
          [] r.kind # "reject" /\ ~r.parses -> AuthReturn(c, calls[c].op, "rejected", SyntaxError, calls[c].tok)
          [] r.kind = "notok" /\ r.parses ->
               AuthReturn(c, calls[c].op, "rejected",
                          IF Truthy(r.error) THEN r.error ELSE Fallback(calls[c].op), calls[c].tok)
          [] OTHER -> AuthReturn(c, calls[c].op, "resolved", "data", calls[c].tok))
        EXCEPT !.resp = r])
  /\ UNCHANGED <<authToken, userData, storage, tokHist, usrHist, intf>>
  /\ UNCHANGED <<form, seen>>
  /\ app' = AppAfter(c, ret')

\* An operation that issues its request again when the transport failed.
authOpResponse_Retry(c, r) ==
  IF r.kind = "reject" /\ calls[c].op \in AuthOps /\ calls[c].pc = "fetch" /\ calls[c].nf < 2
  THEN /\ calls' = [calls EXCEPT ![c].nf = calls[c].nf + 1]
       /\ ret' = NoRet
       /\ UNCHANGED <<authToken, userData, storage, tokHist, usrHist, intf, form, seen, app>>
  ELSE authOpSettle(c, r)

authOpResponse(c, r) == authOpSettle(c, r)

\* generateOTP and resendOTP, lines 142-164 and 201-223: no token is read.
OtpOps == {"generateOTP", "resendOTP"}

otpOp(c, op, args) ==
  /\ Free(c)
  /\ calls' = [calls EXCEPT ![c] =
       [NewCall(op, "fetch") EXCEPT
          !.arg = args, !.req = [Request(op, <<>>) EXCEPT !.body = OtpBody(op, args)], !.nf = 1]]
  /\ ret' = NoRet
  /\ UNCHANGED <<authToken, userData, storage, tokHist, usrHist, intf>>
  /\ UNCHANGED <<form, seen>>
  /\ app' = AppAfter(c, ret')

\* What generateOTP / resendOTP return when the fetch has settled with r.
otpOpResult(op, r) ==
  CASE r.kind = "reject" -> Result(op, "rejected", NetworkError)
    [] r.kind # "reject" /\ ~r.parses -> Result(op, "rejected", SyntaxError)
    [] r.kind = "notok" /\ r.parses -> Result(op, "rejected", (IF r.error = Undefined THEN "" ELSE r.error))
    [] OTHER -> [Result(op, "resolved", "result") EXCEPT !.body = [token |-> r.token, user |-> r.user]]

\* An OTP request that keeps the token of the answer, as verifyOTP does.
otpOpResponse_Stores(c, r) ==
  /\ calls[c].op \in OtpOps /\ calls[c].pc = "fetch"
  /\ Return(c, [otpOpResult(calls[c].op, r) EXCEPT !.resp = r, !.nf = calls[c].nf])
  /\ authToken' = IF r.kind = "ok" /\ r.parses /\ Truthy(r.token) THEN r.token ELSE authToken
  /\ UNCHANGED <<userData, storage, tokHist, usrHist, intf>>
  /\ UNCHANGED <<form, seen>>
  /\ app' = AppAfter(c, ret')

otpOpResponse(c, r) ==
  /\ calls[c].op \in OtpOps /\ calls[c].pc = "fetch"
  /\ Return(c, [otpOpResult(calls[c].op, r) EXCEPT !.resp = r, !.nf = calls[c].nf])
  /\ UNCHANGED <<authToken, userData, storage, tokHist, usrHist, intf>>
  /\ UNCHANGED <<form, seen>>
  /\ app' = AppAfter(c, ret')

----
\* Login and logout, with reads of the store in progress around them.
NextSession ==
  \/ \E args \in OtpArgs : verifyOTP(Session, args)
  \/ \E r \in VerifyResponses : verifyOTPResponse(Session, r)
  \/ \E ok \in BOOLEAN : verifyOTPTokenSaved(Session, ok)
  \/ \E ok \in BOOLEAN : verifyOTPUserSaved(Session, ok)
  \/ logout(Session)
  \/ \E ok \in BOOLEAN : logoutTokenRead(Session, ok)
  \/ \E net \in {"ok", "notok", "reject"} : logoutFetchSettled(Session, net)
  \/ \E ok \in BOOLEAN : logoutTokenRemoved(Session, ok)
  \/ \E ok \in BOOLEAN : logoutUserRemoved(Session, ok)
  \/ \E c \in 1..MaxReaders :
       \/ getAuthToken(c)
       \/ \E ok \in BOOLEAN : getAuthTokenSettled(c, ok)
       \/ getUserData(c)
       \/ \E ok \in BOOLEAN : getUserDataSettled(c, ok)

SpecSession == Init /\ [][NextSession]_vars

\* The authenticated operations, with the token being set and cleared around them.
NextAuth ==
  \/ \E t \in Tokens : setAuthToken(Session, t)
  \/ \E ok \in BOOLEAN : setAuthTokenSettled(Session, ok)
  \/ clearAuthToken(Session)
  \/ \E ok \in BOOLEAN : clearAuthTokenSettled(Session, ok)
  \/ \E c \in 1..MaxAuthCalls :
       \/ \E op \in AuthOps : authOp(c, op)
       \/ \E ok \in BOOLEAN : authOpTokenRead(c, ok)
       \/ \E r \in AuthResponses : authOpResponse(c, r)

SpecAuth == Init /\ [][NextAuth]_vars

\* Every operation of the client: the login flow and logout on the session
\* slot, authenticated operations around them.
NextApi ==
  \/ \E op \in OtpOps, args \in OtpArgs : otpOp(Session, op, args)
  \/ \E r \in AuthResponses : otpOpResponse(Session, r)
  \/ \E args \in OtpArgs : verifyOTP(Session, args)
  \/ \E r \in VerifyResponses : verifyOTPResponse(Session, r)
  \/ \E ok \in BOOLEAN : verifyOTPTokenSaved(Session, ok)
  \/ \E ok \in BOOLEAN : verifyOTPUserSaved(Session, ok)
  \/ logout(Session)
  \/ \E ok \in BOOLEAN : logoutTokenRead(Session, ok)
  \/ \E net \in {"ok", "notok", "reject"} : logoutFetchSettled(Session, net)
  \/ \E ok \in BOOLEAN : logoutTokenRemoved(Session, ok)
  \/ \E ok \in BOOLEAN : logoutUserRemoved(Session, ok)
  \/ \E op \in AuthOps : authOp(Worker, op)
  \/ \E ok \in BOOLEAN : authOpTokenRead(Worker, ok)
  \/ \E r \in AuthResponses : authOpResponse(Worker, r)

SpecApi == Init /\ [][NextApi]_vars

\* index.js: the App component is mounted.
Mount ==
  /\ app.pc = "off"
  /\ app' = [app EXCEPT !.pc = "start"]
  /\ UNCHANGED <<authToken, userData, storage, calls, ret, tokHist, usrHist, intf, seen, form>>

\* checkExistingAuth, App.tsx lines 19-20: the two reads, one after the other.
checkExistingAuth ==
  \/ app.pc = "start" /\ getAuthToken(Session)
  \/ app.pc = "restoreUser" /\ getUserData(Session)

\* LoginScreen is shown while the App is not logged in: handleVerifyOTP calls
\* verifyOTP (LoginScreen.tsx line 94).
handleVerifyOTP(args) == app.pc = "ready" /\ ~app.isLoggedIn /\ verifyOTP(Session, args)

\* HomeScreen is shown while the App is logged in: onLogout, App.tsx line 47.
handleLogout == app.pc = "ready" /\ app.isLoggedIn /\ logout(Session)

\* The App: the startup restore, then logins and logouts.
NextApp ==
  \/ Mount
  \/ checkExistingAuth
  \/ \E ok \in BOOLEAN : getAuthTokenSettled(Session, ok)
  \/ \E ok \in BOOLEAN : getUserDataSettled(Session, ok)
  \/ \E args \in OtpArgs : handleVerifyOTP(args)
  \/ \E r \in VerifyResponses : verifyOTPResponse(Session, r)
  \/ \E ok \in BOOLEAN : verifyOTPTokenSaved(Session, ok)
  \/ \E ok \in BOOLEAN : verifyOTPUserSaved(Session, ok)
  \/ handleLogout
  \/ \E ok \in BOOLEAN : logoutTokenRead(Session, ok)
  \/ \E net \in {"ok", "notok", "reject"} : logoutFetchSettled(Session, net)
  \/ \E ok \in BOOLEAN : logoutTokenRemoved(Session, ok)
  \/ \E ok \in BOOLEAN : logoutUserRemoved(Session, ok)

SpecApp == Init /\ [][NextApp]_vars

\* The login flow: the OTP delivery requests and verifyOTP, answered with any
\* body, while the token is set by another call.
NextOtp ==
  \/ \E op \in OtpOps, args \in OtpArgs : otpOp(Session, op, args)
  \/ \E r \in VerifyResponses : otpOpResponse(Session, r)
  \/ \E args \in OtpArgs : verifyOTP(Session, args)
  \/ \E r \in VerifyResponses : verifyOTPResponse(Session, r)
  \/ \E ok \in BOOLEAN : verifyOTPTokenSaved(Session, ok)
  \/ \E ok \in BOOLEAN : verifyOTPUserSaved(Session, ok)
  \/ \E t \in Tokens : setAuthToken(Worker, t)
  \/ \E ok \in BOOLEAN : setAuthTokenSettled(Worker, ok)

SpecOtp == Init /\ [][NextOtp]_vars

----
\* Text.  A string of a response body or of an alert is the sequence of its
\* characters, so that toLowerCase and includes are computed as JavaScript
\* computes them.  A field that is not in the body is Absent.
Absent == <<"undefined">>
EmptyString == <<>>

\* The string literals of the screens.
SUCCESS ==
  <<"s", "u", "c", "c", "e", "s", "s">>
AMC_CREATED ==
  <<"A", "M", "C", " ", "c", "r", "e", "a", "t", "e", "d", " ", "s", "u", "c", "c", "e", "s", "s", "f", "u", "l", "l", "y">>  \* 'AMC created successfully'
AMC_FAILED ==
  <<"F", "a", "i", "l", "e", "d", " ", "t", "o", " ", "c", "r", "e", "a", "t", "e", " ", "A", "M", "C">>
AMC_TYPE_FAILED ==
  <<"F", "a", "i", "l", "e", "d", " ", "t", "o", " ", "c", "r", "e", "a", "t", "e", " ", "A", "M", "C", " ", "t", "y", "p", "e">>  \* 'Failed to create AMC type'
CUSTOMER_CREATED ==
  <<"C", "u", "s", "t", "o", "m", "e", "r", " ", "c", "r", "e", "a", "t", "e", "d", " ", "s", "u", "c", "c", "e", "s", "s", "f", "u", "l", "l", "y">>  \* 'Customer created successfully'
CUSTOMER_FAILED ==
  <<"F", "a", "i", "l", "e", "d", " ", "t", "o", " ", "c", "r", "e", "a", "t", "e", " ", "c", "u", "s", "t", "o", "m", "e", "r">>  \* 'Failed to create customer'
LEAVE_FAILED ==
  <<"F", "a", "i", "l", "e", "d", " ", "t", "o", " ", "s", "u", "b", "m", "i", "t", " ", "l", "e", "a", "v", "e", " ", "r", "e", "q", "u", "e", "s", "t">>  \* 'Failed to submit leave request'
TRAVEL_FAILED ==
  <<"F", "a", "i", "l", "e", "d", " ", "t", "o", " ", "s", "u", "b", "m", "i", "t", " ", "t", "r", "a", "v", "e", "l", " ", "r", "e", "q", "u", "e", "s", "t">>  \* 'Failed to submit travel request'
DELETE_FAILED ==
  <<"F", "a", "i", "l", "e", "d", " ", "t", "o", " ", "d", "e", "l", "e", "t", "e", " ", "l", "e", "a", "v", "e">>  \* 'Failed to delete leave'

\* Message texts a backend response may carry.
MsgCreated ==
  <<"C", "r", "e", "a", "t", "e", "d", " ", "S", "u", "c", "c", "e", "s", "s", "f", "u", "l", "l", "y">>
MsgInvalid ==
  <<"I", "n", "v", "a", "l", "i", "d", " ", "d", "a", "t", "a">>

\* String.prototype.toLowerCase, character by character.
toLowerCase(str) ==
  LET UpperCase == <<"A", "B", "C", "D", "E", "F", "G", "H", "I", "J", "K", "L", "M", "N", "O", "P", "Q", "R", "S", "T", "U", "V", "W", "X", "Y", "Z">>  \* 'ABCDEFGHIJKLMNOPQRSTUVWXYZ'
      LowerCase == <<"a", "b", "c", "d", "e", "f", "g", "h", "i", "j", "k", "l", "m", "n", "o", "p", "q", "r", "s", "t", "u", "v", "w", "x", "y", "z">>  \* 'abcdefghijklmnopqrstuvwxyz'
  IN [i \in 1..Len(str) |->
        IF \E n \in 1..Len(UpperCase) : UpperCase[n] = str[i]
        THEN LowerCase[CHOOSE n \in 1..Len(UpperCase) : UpperCase[n] = str[i]]
        ELSE str[i]]

\* String.prototype.includes.
includes(str, sub) ==
  \E i \in 0..(Len(str) - Len(sub)) : SubSeq(str, i + 1, i + Len(sub)) = sub

\* a || b on strings and absent fields.
TruthyText(a) == a # Absent /\ a # EmptyString
Or(a, b) == IF TruthyText(a) THEN a ELSE b

\* The alerts of the client-side field checks of each handler, in the order of
\* the checks.
ValidationAlerts(site) ==
  CASE site = "createAMCType" ->
      <<<<"P", "l", "e", "a", "s", "e", " ", "e", "n", "t", "e", "r", " ", "A", "M", "C", " ", "t", "y", "p", "e", " ", "n", "a", "m", "e">>>>  \* 'Please enter AMC type name'
    [] site = "createAMC" ->
      <<<<"P", "l", "e", "a", "s", "e", " ", "s", "e", "l", "e", "c", "t", " ", "a", " ", "c", "u", "s", "t", "o", "m", "e", "r">>,  \* 'Please select a customer'
        <<"P", "l", "e", "a", "s", "e", " ", "s", "e", "l", "e", "c", "t", " ", "s", "t", "a", "r", "t", " ", "d", "a", "t", "e">>,  \* 'Please select start date'
        <<"P", "l", "e", "a", "s", "e", " ", "s", "e", "l", "e", "c", "t", " ", "e", "n", "d", " ", "d", "a", "t", "e">>,  \* 'Please select end date'
        <<"E", "n", "d", " ", "D", "a", "t", "e", " ", "c", "a", "n", "n", "o", "t", " ", "b", "e", " ", "b", "e", "f", "o", "r", "e", " ", "S", "t", "a", "r", "t", " ", "D", "a", "t", "e", ".", " ", "P", "l", "e", "a", "s", "e", " ", "s", "e", "l", "e", "c", "t", " ", "a", " ", "v", "a", "l", "i", "d", " ", "d", "a", "t", "e", " ", "r", "a", "n", "g", "e", ".">>,  \* 'End Date cannot be before Start Date. Please select a valid date range.'
        <<"P", "l", "e", "a", "s", "e", " ", "s", "e", "l", "e", "c", "t", " ", "A", "M", "C", " ", "t", "y", "p", "e">>,  \* 'Please select AMC type'
        <<"P", "l", "e", "a", "s", "e", " ", "e", "n", "t", "e", "r", " ", "n", "u", "m", "b", "e", "r", " ", "o", "f", " ", "s", "e", "r", "v", "i", "c", "e", "s">>,  \* 'Please enter number of services'
        <<"P", "l", "e", "a", "s", "e", " ", "e", "n", "t", "e", "r", " ", "p", "a", "y", "m", "e", "n", "t", " ", "a", "m", "o", "u", "n", "t">>,  \* 'Please enter payment amount'
        <<"P", "l", "e", "a", "s", "e", " ", "e", "n", "t", "e", "r", " ", "a", " ", "v", "a", "l", "i", "d", " ", "n", "u", "m", "b", "e", "r", " ", "o", "f", " ", "s", "e", "r", "v", "i", "c", "e", "s">>,  \* 'Please enter a valid number of services'
        <<"P", "l", "e", "a", "s", "e", " ", "e", "n", "t", "e", "r", " ", "a", " ", "v", "a", "l", "i", "d", " ", "p", "a", "y", "m", "e", "n", "t", " ", "a", "m", "o", "u", "n", "t">>>>  \* 'Please enter a valid payment amount'
    [] site = "createCustomer" ->
      <<<<"P", "l", "e", "a", "s", "e", " ", "e", "n", "t", "e", "r", " ", "c", "u", "s", "t", "o", "m", "e", "r", " ", "s", "i", "t", "e", " ", "n", "a", "m", "e">>,  \* 'Please enter customer site name'
        <<"P", "l", "e", "a", "s", "e", " ", "e", "n", "t", "e", "r", " ", "s", "i", "t", "e", " ", "I", "D">>,  \* 'Please enter site ID'
        <<"P", "l", "e", "a", "s", "e", " ", "e", "n", "t", "e", "r", " ", "s", "i", "t", "e", " ", "a", "d", "d", "r", "e", "s", "s">>,  \* 'Please enter site address'
        <<"P", "l", "e", "a", "s", "e", " ", "e", "n", "t", "e", "r", " ", "c", "o", "n", "t", "a", "c", "t", " ", "p", "e", "r", "s", "o", "n", " ", "n", "a", "m", "e">>,  \* 'Please enter contact person name'
        <<"P", "l", "e", "a", "s", "e", " ", "e", "n", "t", "e", "r", " ", "c", "i", "t", "y">>>>
    [] site = "applyLeave" ->
      <<<<"P", "l", "e", "a", "s", "e", " ", "s", "e", "l", "e", "c", "t", " ", "a", " ", "l", "e", "a", "v", "e", " ", "t", "y", "p", "e">>,  \* 'Please select a leave type'
        <<"P", "l", "e", "a", "s", "e", " ", "s", "e", "l", "e", "c", "t", " ", "f", "r", "o", "m", " ", "d", "a", "t", "e">>,  \* 'Please select from date'
        <<"P", "l", "e", "a", "s", "e", " ", "s", "e", "l", "e", "c", "t", " ", "t", "o", " ", "d", "a", "t", "e">>,  \* 'Please select to date'
        <<"P", "l", "e", "a", "s", "e", " ", "e", "n", "t", "e", "r", " ", "a", " ", "r", "e", "a", "s", "o", "n", " ", "f", "o", "r", " ", "l", "e", "a", "v", "e">>>>  \* 'Please enter a reason for leave'
    [] site = "applyTravelling" ->
      <<<<"P", "l", "e", "a", "s", "e", " ", "e", "n", "t", "e", "r", " ", "t", "r", "a", "v", "e", "l", " ", "m", "o", "d", "e">>,  \* 'Please enter travel mode'
        <<"P", "l", "e", "a", "s", "e", " ", "e", "n", "t", "e", "r", " ", "t", "r", "a", "v", "e", "l", " ", "d", "a", "t", "e">>,  \* 'Please enter travel date'
        <<"P", "l", "e", "a", "s", "e", " ", "e", "n", "t", "e", "r", " ", "f", "r", "o", "m", " ", "p", "l", "a", "c", "e">>,  \* 'Please enter from place'
        <<"P", "l", "e", "a", "s", "e", " ", "e", "n", "t", "e", "r", " ", "t", "o", " ", "p", "l", "a", "c", "e">>,  \* 'Please enter to place'
        <<"P", "l", "e", "a", "s", "e", " ", "e", "n", "t", "e", "r", " ", "a", "m", "o", "u", "n", "t">>>>
    [] site = "deleteLeave" ->
      <<<<"O", "n", "l", "y", " ", "p", "e", "n", "d", "i", "n", "g", " ", "l", "e", "a", "v", "e", " ", "r", "e", "q", "u", "e", "s", "t", "s", " ", "c", "a", "n", " ", "b", "e", " ", "d", "e", "l", "e", "t", "e", "d", ".">>>>  \* 'Only pending leave requests can be deleted.'
    [] site = "sendOTP" ->
      <<<<"P", "l", "e", "a", "s", "e", " ", "e", "n", "t", "e", "r", " ", "y", "o", "u", "r", " ", "m", "o", "b", "i", "l", "e", " ", "n", "u", "m", "b", "e", "r">>,  \* 'Please enter your mobile number'
        <<"P", "l", "e", "a", "s", "e", " ", "e", "n", "t", "e", "r", " ", "y", "o", "u", "r", " ", "e", "m", "a", "i", "l">>,  \* 'Please enter your email'
        <<"P", "l", "e", "a", "s", "e", " ", "e", "n", "t", "e", "r", " ", "a", " ", "v", "a", "l", "i", "d", " ", "1", "0", "-", "d", "i", "g", "i", "t", " ", "m", "o", "b", "i", "l", "e", " ", "n", "u", "m", "b", "e", "r">>,  \* 'Please enter a valid 10-digit mobile number'
        <<"P", "l", "e", "a", "s", "e", " ", "e", "n", "t", "e", "r", " ", "a", " ", "v", "a", "l", "i", "d", " ", "e", "m", "a", "i", "l", " ", "a", "d", "d", "r", "e", "s", "s">>>>  \* 'Please enter a valid email address'
    [] site = "handleVerifyOTP" ->
      <<<<"P", "l", "e", "a", "s", "e", " ", "e", "n", "t", "e", "r", " ", "t", "h", "e", " ", "O", "T", "P">>,  \* 'Please enter the OTP'
        <<"P", "l", "e", "a", "s", "e", " ", "e", "n", "t", "e", "r", " ", "a", " ", "v", "a", "l", "i", "d", " ", "6", "-", "d", "i", "g", "i", "t", " ", "O", "T", "P">>>>  \* 'Please enter a valid 6-digit OTP'

\* String.prototype.trim, for the blank character.
RECURSIVE TrimStart(_)
TrimStart(str) == IF str # <<>> /\ Head(str) = " " THEN TrimStart(Tail(str)) ELSE str

RECURSIVE TrimEnd(_)
TrimEnd(str) ==
  IF str # <<>> /\ str[Len(str)] = " " THEN TrimEnd(SubSeq(str, 1, Len(str) - 1)) ELSE str

trim(str) == TrimEnd(TrimStart(str))

Digits == <<"0", "1", "2", "3", "4", "5", "6", "7", "8", "9">>
IsDigit(ch) == \E n \in 1..10 : Digits[n] = ch

RECURSIVE Decimal(_)
Decimal(str) == IF str = <<>> THEN 0 ELSE 10 * Decimal(SubSeq(str, 1, Len(str) - 1)) + ((CHOOSE n \in 1..10 : Digits[n] = str[Len(str)]) - 1)

\* Number(string) for the numerals a text field can hold: blanks are trimmed,
\* the empty string is 0, a decimal numeral with an optional sign is its
\* value, anything else is NaN.
Number(str) ==
  LET t == trim(str)
      unsigned == IF t # <<>> /\ Head(t) \in {"-", "+"} THEN Tail(t) ELSE t
  IN IF t = <<>> THEN [nan |-> FALSE, val |-> 0]
     ELSE IF unsigned # <<>> /\ \A i \in 1..Len(unsigned) : IsDigit(unsigned[i])
          THEN [nan |-> FALSE, val |-> IF Head(t) = "-" THEN 0 - Decimal(unsigned) ELSE Decimal(unsigned)]
          ELSE [nan |-> TRUE, val |-> 0]

\* new Date('YYYY-MM-DD').getTime(), in days on a calendar of 31-day months
\* (only the sign of a difference is used); NaN for any other string.
DateTime(str) ==
  IF /\ Len(str) = 10 /\ str[5] = "-" /\ str[8] = "-"
     /\ \A i \in {1, 2, 3, 4, 6, 7, 9, 10} : IsDigit(str[i])
  THEN [nan |-> FALSE,
        val |-> (Decimal(SubSeq(str, 1, 4)) * 12 + Decimal(SubSeq(str, 6, 7))) * 31
                + Decimal(SubSeq(str, 9, 10))]
  ELSE [nan |-> TRUE, val |-> 0]

\* compareDates, part_001 lines 187-195.
compareDates(date1Str, date2Str) ==
  IF DateTime(date1Str).nan \/ DateTime(date2Str).nan
  THEN [nan |-> TRUE, val |-> 0]
  ELSE [nan |-> FALSE, val |-> DateTime(date1Str).val - DateTime(date2Str).val]

\* validateContact, LoginScreen.tsx lines 44-52: /^[6-9]\d{9}$/ and
\* /^[^\s@]+@[^\s@]+\.[^\s@]+$/.
validateContact(input, method) ==
  IF method = "phone"
  THEN /\ Len(input) = 10
       /\ input[1] \in {"6", "7", "8", "9"}
       /\ \A i \in 2..10 : IsDigit(input[i])
  ELSE \E i, j \in 1..Len(input) :
         /\ 1 < i /\ i + 1 < j /\ j < Len(input)
         /\ input[i] = "@" /\ input[j] = "."
         /\ \A k \in 1..Len(input) : k # i => input[k] \notin {" ", "@"}

\* The first alert of a chain of checks `if (fails) { alert; return; }`:
\* checks is the sequence of the outcomes (TRUE: the check fails).
RECURSIVE FirstFailing(_, _, _)
FirstFailing(checks, alerts, n) ==
  IF n > Len(checks) THEN Absent
  ELSE IF checks[n] THEN alerts[n] ELSE FirstFailing(checks, alerts, n + 1)

----

Bodies ==
  [success : {"true", "false", "undefined"},
   message : {Absent, EmptyString, MsgCreated, <<"C", "u", "s", "t", "o", "m", "e", "r", " ", "c", "r", "e", "a", "t", "e", "d", " ", "s", "u", "c", "c", "e", "s", "s", "f", "u", "l", "l", "y", " ", "b", "u", "t", " ", "e", "m", "a", "i", "l", " ", "f", "a", "i", "l", "e", "d">>, MsgInvalid},  \* 'Customer created successfully but email failed'
   msg : {Absent, <<"S", "A", "V", "E", "D", ":", " ", "S", "U", "C", "C", "E", "S", "S">>, MsgInvalid},
   error : {Absent, <<"d", "u", "p", "l", "i", "c", "a", "t", "e", " ", "e", "n", "t", "r", "y">>}]


Alert(kind, msg) == [kind |-> kind, msg |-> msg]

\* What the fields of a screen may hold when its form is submitted.
TextValues == {EmptyString, <<" ">>, <<"A">>}


FormInputs(site) ==
  CASE site = "createAMC" ->
         [selectedCustomer : TextValues, startDate : {EmptyString, <<"2", "0", "2", "5", "-", "0", "1", "-", "1", "0">>,
                        <<"2", "0", "2", "5", "-", "0", "2", "-", "0", "1">>},
          endDate : {EmptyString, <<"2", "0", "2", "5", "-", "0", "1", "-", "1", "0">>,
                        <<"2", "0", "2", "5", "-", "0", "2", "-", "0", "1">>},
          amcType : TextValues, numberOfServices : {EmptyString, <<"0">>, <<"2">>, <<"x">>, <<"-", "1">>},
          paymentAmount : {EmptyString, <<"0">>, <<"2">>, <<"x">>, <<"-", "1">>}]
    [] site = "createAMCType" -> [newAMCTypeName : TextValues]
    [] site = "createCustomer" ->
         [customerSiteName : TextValues, siteId : TextValues, siteAddress : TextValues,
          contactPersonName : TextValues, city : TextValues,
          mobileError : {Absent, MsgInvalid}, emailError : {Absent, MsgInvalid}]
    [] site = "applyLeave" ->
         [leaveType : TextValues, fromDate : TextValues, toDate : TextValues,
          emailError : {Absent, MsgInvalid}, reason : TextValues]
    [] site = "applyTravelling" ->
         [travelBy : TextValues, travelDate : TextValues, fromPlace : TextValues,
          toPlace : TextValues, amount : TextValues]
    [] site = "deleteLeave" -> [status : {"pending", "approved"}]
    [] site = "sendOTP" -> [contact : {EmptyString, <<"9", "8", "7", "6", "5", "4", "3", "2", "1", "0">>, <<"1", "2", "3", "4", "5", "6", "7", "8", "9", "0">>, <<"9", "8", "7", "6", "5">>, <<"a", "@", "b", ".", "c", "o">>, <<"a", "@", "b">>}, loginMethod : {"phone", "email"}]  \* '9876543210', '1234567890', 'a@b.co'
    [] site = "handleVerifyOTP" -> [otp : {EmptyString, <<"1", "2", "3", "4", "5", "6">>, <<"1", "2", "3", "4", "5">>}]  \* '123456'
    [] OTHER -> {}

blank(str) == trim(str) = <<>>

\* A create-AMC handler without the check of the order of the dates.
createAMCCheck_NoDateOrder(formData) ==
  FirstFailing(
    <<blank(formData.selectedCustomer), blank(formData.startDate), blank(formData.endDate),
      FALSE,
      blank(formData.amcType), blank(formData.numberOfServices), blank(formData.paymentAmount),
      Number(formData.numberOfServices).nan \/ Number(formData.numberOfServices).val <= 0,
      Number(formData.paymentAmount).nan \/ Number(formData.paymentAmount).val <= 0>>,
    ValidationAlerts("createAMC"), 1)

\* CreateAMCScreen.handleSubmit, part_001 lines 250-293.
createAMCCheck(formData) ==
  FirstFailing(
    <<blank(formData.selectedCustomer), blank(formData.startDate), blank(formData.endDate),
      /\ formData.startDate # <<>> /\ formData.endDate # <<>>
      /\ ~compareDates(formData.endDate, formData.startDate).nan
      /\ compareDates(formData.endDate, formData.startDate).val < 0,
      blank(formData.amcType), blank(formData.numberOfServices), blank(formData.paymentAmount),
      Number(formData.numberOfServices).nan \/ Number(formData.numberOfServices).val <= 0,
      Number(formData.paymentAmount).nan \/ Number(formData.paymentAmount).val <= 0>>,
    ValidationAlerts("createAMC"), 1)

FieldCheck(site, fields) ==
  CASE site = "createAMC" -> createAMCCheck(fields)
    [] site = "createAMCType" ->  \* handleCreateAMCType, part_001 lines 91-94.
         FirstFailing(<<blank(fields.newAMCTypeName)>>, ValidationAlerts("createAMCType"), 1)
    [] site = "createCustomer" ->  \* AddCustomerScreen.handleSubmit, lines 53-87.
         FirstFailing(
           <<blank(fields.customerSiteName), blank(fields.siteId), blank(fields.siteAddress),
             blank(fields.contactPersonName), blank(fields.city),
             TruthyText(fields.mobileError), TruthyText(fields.emailError)>>,
           ValidationAlerts("createCustomer") \o <<fields.mobileError, fields.emailError>>, 1)
    [] site = "applyLeave" ->  \* validateForm, LeaveScreen.tsx lines 95-119.
         FirstFailing(
           <<blank(fields.leaveType), blank(fields.fromDate), blank(fields.toDate),
             TruthyText(fields.emailError), blank(fields.reason)>>,
           SubSeq(ValidationAlerts("applyLeave"), 1, 3) \o <<fields.emailError>>
             \o SubSeq(ValidationAlerts("applyLeave"), 4, 4), 1)
    [] site = "applyTravelling" ->  \* handleApplyTravelling, AMCListScreen.tsx lines 417-436.
         FirstFailing(
         <<blank(fields.travelBy), blank(fields.travelDate), blank(fields.fromPlace),
           blank(fields.toPlace), blank(fields.amount)>>,
         ValidationAlerts("applyTravelling"), 1)
    [] site = "deleteLeave" ->  \* handleDelete, LeaveDetailsScreen.tsx lines 90 and 123-125.
         FirstFailing(<<fields.status # "pending">>, ValidationAlerts("deleteLeave"), 1)
    [] site = "sendOTP" ->  \* sendOTP, LoginScreen.tsx lines 55-63.
         FirstFailing(
         <<fields.contact = <<>>, ~validateContact(fields.contact, fields.loginMethod)>>,
         IF fields.loginMethod = "phone"
         THEN <<ValidationAlerts("sendOTP")[1], ValidationAlerts("sendOTP")[3]>>
         ELSE <<ValidationAlerts("sendOTP")[2], ValidationAlerts("sendOTP")[4]>>, 1)
    [] site = "handleVerifyOTP" ->  \* handleVerifyOTP, LoginScreen.tsx lines 82-90.
         FirstFailing(<<fields.otp = <<>>, Len(fields.otp) # 6>>, ValidationAlerts("handleVerifyOTP"), 1)

\* part_001 lines 316-318 (and 106-108).
isSuccessMessage(resultMessage) ==
  \/ includes(toLowerCase(resultMessage), SUCCESS)
  \/ includes(toLowerCase(resultMessage), <<"c", "r", "e", "a", "t", "e", "d", " ", "s", "u", "c", "c", "e", "s", "s", "f", "u", "l", "l", "y">>)
  \/ includes(toLowerCase(resultMessage), <<"s", "u", "c", "c", "e", "s", "s", "f", "u", "l", "l", "y">>)

\* A create-AMC handler that goes by the success field only.
createAMCAlert_IgnoresMessage(result) ==
  LET resultMessage == Or(result.message, Or(result.msg, AMC_CREATED)) IN
  IF result.success = "true" \/ result.success = "undefined"
  THEN Alert("success", resultMessage)
  ELSE Alert("error", Or(resultMessage, AMC_FAILED))

\* CreateAMCScreen.handleSubmit, part_001 lines 313-334.
createAMCAlert(result) ==
  LET resultMessage == Or(result.message, Or(result.msg, AMC_CREATED)) IN
  IF result.success = "true" \/ result.success = "undefined" \/ isSuccessMessage(resultMessage)
  THEN Alert("success", resultMessage)
  ELSE Alert("error", Or(resultMessage, AMC_FAILED))

\* A create-customer handler that asks for an explicit success: true.
createCustomerAlert_RequiresTrue(result) ==
  IF result.success = "true"
  THEN Alert("success", Or(result.message, Or(result.msg, CUSTOMER_CREATED)))
  ELSE Alert("error", Or(result.message, Or(result.error, CUSTOMER_FAILED)))

\* AddCustomerScreen.handleSubmit, lines 112-127.
createCustomerAlert(result) ==
  IF result.success = "true" \/ result.success = "undefined"
  THEN Alert("success", Or(result.message, Or(result.msg, CUSTOMER_CREATED)))
  ELSE Alert("error", Or(result.message, Or(result.error, CUSTOMER_FAILED)))

ResultAlert(site, result) ==
  CASE site = "createAMC" -> createAMCAlert(result)
    [] site = "createAMCType" ->  \* handleCreateAMCType, part_001 lines 103-133.
         LET resultMessage == Or(result.message, Or(result.msg, <<"A", "M", "C", " ", "t", "y", "p", "e", " ", "c", "r", "e", "a", "t", "e", "d", " ", "s", "u", "c", "c", "e", "s", "s", "f", "u", "l", "l", "y">>))  \* 'AMC type created successfully'
             shouldTreatAsSuccess ==
               isSuccessMessage(resultMessage) \/ result.success = "true" \/ result.success = "undefined"
         IN IF shouldTreatAsSuccess
            THEN Alert("success", resultMessage)
            ELSE Alert("error", Or(resultMessage, AMC_TYPE_FAILED))
    [] site = "createCustomer" -> createCustomerAlert(result)
    [] site = "applyLeave" ->  \* handleApplyLeave, LeaveScreen.tsx lines 373-383.
         IF result.success = "true"
         THEN Alert("success", Or(result.message, <<"L", "e", "a", "v", "e", " ", "r", "e", "q", "u", "e", "s", "t", " ", "s", "u", "b", "m", "i", "t", "t", "e", "d", " ", "s", "u", "c", "c", "e", "s", "s", "f", "u", "l", "l", "y">>))  \* 'Leave request submitted successfully'
         ELSE Alert("error", Or(result.message, Or(result.error, LEAVE_FAILED)))
    [] site = "applyTravelling" ->  \* handleApplyTravelling, AMCListScreen.tsx lines 452-466.
         IF result.success = "true"
         THEN Alert("success", Or(result.message, <<"T", "r", "a", "v", "e", "l", " ", "r", "e", "q", "u", "e", "s", "t", " ", "s", "u", "b", "m", "i", "t", "t", "e", "d", " ", "s", "u", "c", "c", "e", "s", "s", "f", "u", "l", "l", "y">>))  \* 'Travel request submitted successfully'
         ELSE Alert("error", Or(result.message, TRAVEL_FAILED))
    [] site = "deleteLeave" ->  \* handleDelete, LeaveDetailsScreen.tsx lines 100-114.
         IF result.success = "true"
         THEN Alert("success", Or(result.message, <<"L", "e", "a", "v", "e", " ", "d", "e", "l", "e", "t", "e", "d", " ", "s", "u", "c", "c", "e", "s", "s", "f", "u", "l", "l", "y">>))  \* 'Leave deleted successfully'
         ELSE Alert("error", Or(result.message, DELETE_FAILED))
    [] site = "sendOTP" ->  \* sendOTP, LoginScreen.tsx lines 68-73; handleVerifyOTP, lines 95-97: any resolved call is a success.
         Alert("success",
         <<"O", "T", "P", " ", "s", "e", "n", "t", " ", "t", "o", " ">> \o (IF form.fields.loginMethod = "phone" THEN <<"+", "9", "1">> \o form.fields.contact ELSE form.fields.contact))  \* 'OTP sent to '
    [] site = "handleVerifyOTP" ->
         Alert("success", <<"L", "o", "g", "i", "n", " ", "s", "u", "c", "c", "e", "s", "s", "f", "u", "l", "!">>)  \* 'Login successful!'

\* The catch clause of each handler: error.message || '...'.
CatchAlert(site, message) ==
  Alert("error",
    CASE site = "createAMC" -> Or(message, <<"F", "a", "i", "l", "e", "d", " ", "t", "o", " ", "c", "r", "e", "a", "t", "e", " ", "A", "M", "C", ".", " ", "P", "l", "e", "a", "s", "e", " ", "t", "r", "y", " ", "a", "g", "a", "i", "n", ".">>)  \* 'Failed to create AMC. Please try again.'
      [] site = "createAMCType" -> Or(message, <<"F", "a", "i", "l", "e", "d", " ", "t", "o", " ", "c", "r", "e", "a", "t", "e", " ", "A", "M", "C", " ", "t", "y", "p", "e", ".", " ", "P", "l", "e", "a", "s", "e", " ", "t", "r", "y", " ", "a", "g", "a", "i", "n", ".">>)  \* 'Failed to create AMC type. Please try again.'
      [] site = "createCustomer" -> Or(message, <<"F", "a", "i", "l", "e", "d", " ", "t", "o", " ", "c", "r", "e", "a", "t", "e", " ", "c", "u", "s", "t", "o", "m", "e", "r", ".", " ", "P", "l", "e", "a", "s", "e", " ", "t", "r", "y", " ", "a", "g", "a", "i", "n", ".">>)  \* 'Failed to create customer. Please try again.'
      [] site = "applyLeave" -> Or(message, <<"F", "a", "i", "l", "e", "d", " ", "t", "o", " ", "s", "u", "b", "m", "i", "t", " ", "l", "e", "a", "v", "e", " ", "r", "e", "q", "u", "e", "s", "t", ".", " ", "P", "l", "e", "a", "s", "e", " ", "t", "r", "y", " ", "a", "g", "a", "i", "n", ".">>)  \* 'Failed to submit leave request. Please try again.'
      [] site = "applyTravelling" -> Or(message, <<"F", "a", "i", "l", "e", "d", " ", "t", "o", " ", "s", "u", "b", "m", "i", "t", " ", "t", "r", "a", "v", "e", "l", " ", "r", "e", "q", "u", "e", "s", "t", ".", " ", "P", "l", "e", "a", "s", "e", " ", "t", "r", "y", " ", "a", "g", "a", "i", "n", ".">>)  \* 'Failed to submit travel request. Please try again.'
      [] site = "deleteLeave" -> Or(message, <<"F", "a", "i", "l", "e", "d", " ", "t", "o", " ", "d", "e", "l", "e", "t", "e", " ", "l", "e", "a", "v", "e", ".", " ", "P", "l", "e", "a", "s", "e", " ", "t", "r", "y", " ", "a", "g", "a", "i", "n", ".">>)  \* 'Failed to delete leave. Please try again.'
      [] site = "sendOTP" -> Or(message, <<"F", "a", "i", "l", "e", "d", " ", "t", "o", " ", "s", "e", "n", "d", " ", "O", "T", "P", ".", " ", "P", "l", "e", "a", "s", "e", " ", "t", "r", "y", " ", "a", "g", "a", "i", "n", ".">>)  \* 'Failed to send OTP. Please try again.'
      [] site = "handleVerifyOTP" -> Or(message, <<"I", "n", "v", "a", "l", "i", "d", " ", "O", "T", "P", ".", " ", "P", "l", "e", "a", "s", "e", " ", "t", "r", "y", " ", "a", "g", "a", "i", "n", ".">>))  \* 'Invalid OTP. Please try again.'

\* The screen is opened (mounted) and closed (onBack).
Open(site) ==
  /\ form.site = "none"
  /\ form' = [NoForm EXCEPT !.site = site]
  /\ UNCHANGED storeVars

Close ==
  /\ form.site # "none" /\ form.pc \in {"idle", "done"}
  /\ form' = NoForm
  /\ UNCHANGED storeVars

\* The alert shown is modal: the form is used again once it is dismissed.
Dismiss ==
  /\ form.pc \in {"idle", "done"} /\ form.alert # NoAlert
  /\ form' = [NoForm EXCEPT !.site = form.site]
  /\ UNCHANGED storeVars

\* The submit handler up to its await: the first failing field check shows
\* its alert and returns; otherwise the busy flag is set and the API is called.
Submit(fields) ==
  /\ form.site # "none" /\ form.pc = "idle" /\ form.alert = NoAlert
  /\ fields \in FormInputs(form.site)
  /\ form' = IF FieldCheck(form.site, fields) # Absent
             THEN [form EXCEPT !.pc = "idle", !.alert = Alert("error", FieldCheck(form.site, fields)),
                               !.result = NoResult, !.refresh = "none", !.fields = fields]
             ELSE [form EXCEPT !.pc = "calling", !.busy = TRUE, !.alert = NoAlert,
                               !.result = NoResult, !.refresh = "none", !.fields = fields]
  /\ UNCHANGED storeVars

\* The API call resolves with a parsed body: the alert is decided, the busy
\* flag is reset in the finally clause.  handleCreateAMCType first refreshes
\* the list of types (lines 118-128) and shows its alert afterwards.
Resolve(result) ==
  /\ form.pc = "calling"
  /\ form' = IF form.site = "createAMCType" /\ ResultAlert(form.site, result).kind = "success"
             THEN [form EXCEPT !.pc = "refreshing", !.result = result]
             ELSE [form EXCEPT !.pc = "done", !.busy = FALSE, !.result = result,
                               !.alert = ResultAlert(form.site, result)]
  /\ UNCHANGED storeVars

\* handleCreateAMCType, lines 121-128 and 137-139: fetchAMCTypes has settled.
\* It catches its own failure (lines 77-88, showing 'Failed to load AMC
\* types'); the success alert of the creation is shown after it either way.
Refreshed(ok) ==
  /\ form.pc = "refreshing"
  /\ form' = [form EXCEPT !.pc = "done", !.busy = FALSE,
                          !.refresh = IF ok THEN "ok" ELSE "failed",
                          !.alert = ResultAlert(form.site, form.result)]
  /\ UNCHANGED storeVars

\* A handler without the finally clause.
Reject_NoFinally(message) ==
  /\ form.pc = "calling"
  /\ form' = [form EXCEPT !.pc = "done", !.error = message,
                          !.alert = CatchAlert(form.site, message)]
  /\ UNCHANGED storeVars

\* The API call rejects: the catch clause shows the error, the finally
\* clause resets the busy flag.
Reject(message) ==
  /\ form.pc = "calling"
  /\ form' = [form EXCEPT !.pc = "done", !.busy = FALSE, !.error = message,
                          !.alert = CatchAlert(form.site, message)]
  /\ UNCHANGED storeVars

\* The catch clause of each loader.
LoaderAlert(loader, message) ==
  CASE loader = "fetchLeaveTypes" -> NoAlert
    [] loader = "fetchTodayAttendance" -> NoAlert
    [] loader = "fetchCustomers" -> Alert("error", <<"F", "a", "i", "l", "e", "d", " ", "t", "o", " ", "l", "o", "a", "d", " ", "c", "u", "s", "t", "o", "m", "e", "r", "s", ".", " ", "P", "l", "e", "a", "s", "e", " ", "t", "r", "y", " ", "a", "g", "a", "i", "n", ".">>)  \* 'Failed to load customers. Please try again.'
    [] loader = "fetchAMCTypes" -> Alert("error", <<"F", "a", "i", "l", "e", "d", " ", "t", "o", " ", "l", "o", "a", "d", " ", "A", "M", "C", " ", "t", "y", "p", "e", "s", ".", " ", "P", "l", "e", "a", "s", "e", " ", "t", "r", "y", " ", "a", "g", "a", "i", "n", ".">>)  \* 'Failed to load AMC types. Please try again.'
    [] loader = "fetchAMCList" -> Alert("error", Or(message, <<"F", "a", "i", "l", "e", "d", " ", "t", "o", " ", "f", "e", "t", "c", "h", " ", "A", "M", "C", " ", "l", "i", "s", "t", ".", " ", "P", "l", "e", "a", "s", "e", " ", "t", "r", "y", " ", "a", "g", "a", "i", "n", ".">>))  \* 'Failed to fetch AMC list. Please try again.'

\* A loader up to its await: the loading flag is set and the API is called.
Load(loader) ==
  /\ form.site = "none"
  /\ form' = [NoForm EXCEPT !.site = loader, !.pc = "loading", !.busy = TRUE]
  /\ UNCHANGED storeVars

\* The API call of the loader resolves: the list is kept, the flag is reset.
Loaded ==
  /\ form.pc = "loading"
  /\ form' = [form EXCEPT !.pc = "done", !.busy = FALSE]
  /\ UNCHANGED storeVars

\* The API call of the loader rejects: its catch clause runs, the flag is reset.
LoadFailed(message) ==
  /\ form.pc = "loading"
  /\ form' = [form EXCEPT !.pc = "done", !.busy = FALSE, !.error = message,
                          !.alert = LoaderAlert(form.site, message)]
  /\ UNCHANGED storeVars

NextForms ==
  \/ \E site \in {"createAMC", "createAMCType", "createCustomer", "applyLeave",
                   "applyTravelling", "deleteLeave", "sendOTP", "handleVerifyOTP"} : Open(site)
  \/ Close
  \/ Dismiss
  \/ \E fields \in FormInputs(form.site) : Submit(fields)
  \/ \E result \in Bodies : Resolve(result)
  \/ \E ok \in BOOLEAN : Refreshed(ok)
  \/ \E message \in {EmptyString, <<"N", "e", "t", "w", "o", "r", "k", " ", "r", "e", "q", "u", "e", "s", "t", " ", "f", "a", "i", "l", "e", "d">>} : Reject(message)
  \/ \E loader \in {"fetchLeaveTypes", "fetchTodayAttendance", "fetchCustomers", "fetchAMCTypes", "fetchAMCList"} : Load(loader)
  \/ Loaded
  \/ \E message \in {EmptyString, <<"N", "e", "t", "w", "o", "r", "k", " ", "r", "e", "q", "u", "e", "s", "t", " ", "f", "a", "i", "l", "e", "d">>} : LoadFailed(message)

\* The screens do not depend on what the device has stored.
InitForms == Init /\ storage = [key \in {AUTH_TOKEN_KEY, USER_DATA_KEY} |-> Null]

SpecForms == InitForms /\ [][NextForms]_vars

----
\* LoginScreen.tsx.  The state of the mounted screen is kept in form: busy is
\* isLoading, pc is the request awaited ("idle" when there is none).

\* The screen is mounted with the initial values of its useState calls
\* (LoginScreen.tsx lines 18-24; MarkAttendanceScreen.tsx lines 25-36, where
\* the mount effect, lines 38-45, calls fetchTodayAttendance; CreateAMCScreen,
\* part_001 lines 26-57).
Show(screen) ==
  /\ form.site = "none"
  /\ \E west \in BOOLEAN :
     form' = CASE screen = "LoginScreen" ->
                       [site |-> screen, pc |-> "idle", busy |-> FALSE, alert |-> NoAlert,
                        contact |-> EmptyString, loginMethod |-> "phone", isOtpSent |-> FALSE,
                        otpTimer |-> 0, canResendOtp |-> TRUE]
                  [] screen = "MarkAttendanceScreen" ->
                       [site |-> screen, pc |-> "idle", busy |-> FALSE, alert |-> NoAlert,
                        isSelfieTaken |-> FALSE, hasCheckedIn |-> FALSE, hasCheckedOut |-> FALSE,
                        fetches |-> 1, onDismiss |-> "none", checkedIn |-> FALSE]
                  [] screen = "CreateAMCScreen" ->
                       [site |-> screen, pc |-> "idle", busy |-> FALSE, alert |-> NoAlert,
                        startDate |-> EmptyString, endDate |-> EmptyString,
                        selectedDateField |-> "null", tempDate |-> [date |-> 3, local |-> 3],
                        west |-> west,
                        request |-> [start_date |-> EmptyString, end_date |-> EmptyString]]
  /\ UNCHANGED storeVars

\* onChangeText of the contact input, lines 190-191, shown while no OTP is
\* sent: a mobile number keeps its digits, ten at most.
setContact(text) ==
  /\ form.site = "LoginScreen" /\ ~form.isOtpSent
  /\ form' = [form EXCEPT !.contact =
                IF form.loginMethod = "phone"
                THEN SubSeq(SelectSeq(text, IsDigit), 1, IF Len(SelectSeq(text, IsDigit)) < 10 THEN Len(SelectSeq(text, IsDigit)) ELSE 10)
                ELSE SubSeq(text, 1, IF Len(text) < 100 THEN Len(text) ELSE 100)]
  /\ UNCHANGED storeVars

\* The Phone and Email buttons, lines 147-152 and 171-176.
setLoginMethod(method) ==
  /\ form.site = "LoginScreen" /\ ~form.isOtpSent
  /\ form' = [form EXCEPT !.loginMethod = method, !.contact = EmptyString, !.isOtpSent = FALSE]
  /\ UNCHANGED storeVars

\* sendOTP up to its await, lines 54-67.  The Send OTP button is shown while
\* no OTP is sent and is disabled while isLoading (line 197).  The timer is
\* not looked at.
sendOTP ==
  /\ form.site = "LoginScreen" /\ ~form.isOtpSent /\ ~form.busy
  /\ form' = IF FieldCheck("sendOTP", [contact |-> form.contact, loginMethod |-> form.loginMethod]) # Absent
             THEN form
             ELSE [form EXCEPT !.busy = TRUE, !.pc = "generateOTP"]
  /\ UNCHANGED storeVars

\* The Change button, line 225, shown once an OTP is sent.
Change ==
  /\ form.site = "LoginScreen" /\ form.isOtpSent
  /\ form' = [form EXCEPT !.isOtpSent = FALSE]
  /\ UNCHANGED storeVars

\* handleResendOTP up to its await, lines 105-112.  The Resend OTP button is
\* shown once an OTP is sent and otpTimer is 0, and is disabled while
\* isLoading (lines 251-259).
handleResendOTP ==
  /\ form.site = "LoginScreen" /\ form.isOtpSent /\ form.otpTimer = 0 /\ ~form.busy
  /\ form' = IF ~form.canResendOtp THEN form
             ELSE [form EXCEPT !.busy = TRUE, !.pc = "resendOTP"]
  /\ UNCHANGED storeVars

\* handleVerifyOTP of the screen up to its await, lines 81-93: the Verify OTP
\* button is shown once an OTP is sent and is disabled while isLoading.
VerifyOTP(otp) ==
  /\ form.site = "LoginScreen" /\ form.isOtpSent /\ ~form.busy
  /\ form' = IF FieldCheck("handleVerifyOTP", [otp |-> otp]) # Absent THEN form
             ELSE [form EXCEPT !.busy = TRUE, !.pc = "verifyOTP"]
  /\ UNCHANGED storeVars

\* The awaited request settles.  generateOTP, lines 68-78; resendOTP, lines
\* 113-123; verifyOTP, lines 94-102: onLogin makes the App show the main
\* screen when handleLogin (App.tsx lines 38-43) does not throw.  The finally
\* clause resets isLoading.
OtpSettled(outcome) ==
  /\ form.site = "LoginScreen" /\ form.pc # "idle"
  /\ outcome \in IF form.pc = "verifyOTP" THEN {"login", "rejected"} ELSE {"resolved", "rejected"}
  /\ form' = CASE outcome = "login" -> NoForm
               [] outcome = "rejected" -> [form EXCEPT !.busy = FALSE, !.pc = "idle"]
               [] OTHER -> [form EXCEPT !.busy = FALSE, !.pc = "idle", !.otpTimer = 60,
                                        !.canResendOtp = FALSE,
                                        !.isOtpSent = IF form.pc = "generateOTP" THEN TRUE ELSE @]
  /\ UNCHANGED storeVars

\* The interval of the timer effect fires, lines 28-42.
Tick ==
  /\ form.site = "LoginScreen" /\ form.otpTimer > 0
  /\ form' = IF form.otpTimer <= 1 THEN [form EXCEPT !.otpTimer = 0, !.canResendOtp = TRUE]
             ELSE [form EXCEPT !.otpTimer = @ - 1]
  /\ UNCHANGED storeVars

NextLogin ==
  \/ Show("LoginScreen")
  \/ \E text \in {EmptyString, <<"9", "8", "7", "6", "5", "4", "3", "2", "1", "0">>, <<"a", "@", "b", ".", "c", "o">>} : setContact(text)
  \/ \E method \in {"phone", "email"} : setLoginMethod(method)
  \/ sendOTP
  \/ Change
  \/ handleResendOTP
  \/ \E otp \in FormInputs("handleVerifyOTP") : VerifyOTP(otp.otp)
  \/ \E outcome \in {"resolved", "rejected", "login"} : OtpSettled(outcome)
  \/ Tick

SpecLogin == InitForms /\ [][NextLogin]_vars

\* The interval fires every second while otpTimer is positive.
SpecLoginFair == SpecLogin /\ WF_vars(Tick)

----
\* MarkAttendanceScreen.tsx.  busy is isSubmitting, pc the request awaited,
\* fetches the number of fetchTodayAttendance calls not settled yet, onDismiss
\* the callback of the success alert shown, checkedIn whether a check-in has
\* succeeded since the screen was mounted.

\* fetchTodayAttendance from its await on, lines 50-61.
fetchTodayAttendanceSettled(response) ==
  /\ form.site = "MarkAttendanceScreen" /\ form.fetches > 0
  /\ form' = IF response.ok
             THEN [form EXCEPT !.fetches = @ - 1, !.hasCheckedIn = response.has_checked_in,
                               !.hasCheckedOut = response.has_checked_out]
             ELSE [form EXCEPT !.fetches = @ - 1, !.hasCheckedIn = FALSE, !.hasCheckedOut = FALSE]
  /\ UNCHANGED storeVars

\* handleTakeSelfie and handleCaptureSelfie, lines 64-104: the Take selfie
\* button is shown before the check-in (lines 397-410).
handleCaptureSelfie ==
  /\ form.site = "MarkAttendanceScreen" /\ form.onDismiss = "none"
  /\ ~form.hasCheckedIn /\ ~form.isSelfieTaken
  /\ form' = [form EXCEPT !.isSelfieTaken = TRUE]
  /\ UNCHANGED storeVars

\* handleCheckIn up to its await, lines 139-154; its button, lines 412-426.
handleCheckIn ==
  /\ form.site = "MarkAttendanceScreen" /\ form.onDismiss = "none"
  /\ ~form.hasCheckedIn /\ form.isSelfieTaken /\ ~form.busy
  /\ form' = [form EXCEPT !.busy = TRUE, !.pc = "checkInAttendance"]
  /\ UNCHANGED storeVars

\* handleCheckOut up to its await, lines 189-199; its button, lines 428-442.
handleCheckOut ==
  /\ form.site = "MarkAttendanceScreen" /\ form.onDismiss = "none"
  /\ form.hasCheckedIn /\ ~form.hasCheckedOut /\ ~form.busy
  /\ form' = [form EXCEPT !.busy = TRUE, !.pc = "checkOutAttendance"]
  /\ UNCHANGED storeVars

\* The awaited request settles: handleCheckIn, lines 156-186 (`is_checked_in
\* || true` is true), handleCheckOut, lines 201-226.
AttendanceSettled(response) ==
  /\ form.site = "MarkAttendanceScreen" /\ form.pc # "idle"
  /\ form' = CASE ~response.ok -> [form EXCEPT !.busy = FALSE, !.pc = "idle"]
               [] response.ok /\ form.pc = "checkInAttendance" ->
                    [form EXCEPT !.busy = FALSE, !.pc = "idle", !.isSelfieTaken = FALSE,
                                 !.hasCheckedIn = TRUE,
                                 !.hasCheckedOut = IF response.attendance THEN response.is_checked_out ELSE @,
                                 !.onDismiss = "fetchTodayAttendance", !.checkedIn = TRUE]
               [] response.ok /\ form.pc = "checkOutAttendance" ->
                    [form EXCEPT !.busy = FALSE, !.pc = "idle",
                                 !.hasCheckedIn = IF response.attendance THEN response.is_checked_in ELSE @,
                                 !.hasCheckedOut = TRUE,
                                 !.onDismiss = "onBack"]
  /\ UNCHANGED storeVars

\* The success alert is acknowledged and its callback runs: the refresh of
\* lines 175-178, or onBack, lines 218-221, which closes the screen.
AlertDismissed ==
  /\ form.site = "MarkAttendanceScreen" /\ form.onDismiss # "none"
  /\ form.onDismiss = "fetchTodayAttendance" => form.fetches < MaxFetches
  /\ form' = IF form.onDismiss = "onBack" THEN NoForm
             ELSE [form EXCEPT !.onDismiss = "none", !.fetches = @ + 1]
  /\ UNCHANGED storeVars

NextAttendance ==
  \/ Show("MarkAttendanceScreen")
  \/ \E response \in [ok : BOOLEAN, has_checked_in : BOOLEAN, has_checked_out : BOOLEAN] :
       fetchTodayAttendanceSettled(response)
  \/ handleCaptureSelfie
  \/ handleCheckIn
  \/ handleCheckOut
  \/ \E response \in [ok : BOOLEAN, attendance : BOOLEAN, is_checked_in : BOOLEAN, is_checked_out : BOOLEAN] :
       AttendanceSettled(response)
  \/ AlertDismissed

SpecAttendance == Init /\ [][NextAttendance]_vars

----
\* CreateAMCScreen, part_001: the date picker.  Days are numbered within one
\* month.  A Date is the pair of the calendar day it falls on in UTC (date)
\* and on the device (local): the two differ by one during the hours of the
\* day that the time zone offset covers, the UTC day being the later one on
\* a device west of Greenwich.  busy is isLoading.

\* Date.prototype.toISOString().split('T')[0], the UTC day as 'YYYY-MM-DD',
\* line 200.
toISOString(day) == <<"2", "0", "2", "5", "-", "0", "1", "-", "1", Digits[day + 1]>>

\* new Date('YYYY-MM-DD') is midnight UTC of that day, which on a device
\* west of Greenwich falls on the evening before (lines 155, 161, 736).
NewDate(str) ==
  LET day == CHOOSE n \in 0..9 : toISOString(n) = str
  IN [date |-> day, local |-> IF form.west THEN day - 1 ELSE day]

\* handleDateSelect, lines 149-185: the picker opens on the date the field
\* holds, else on the start date for the end date, else on now.  A picked
\* date always parses.  The fields are pressed while no picker is open.
handleDateSelect(field, now) ==
  /\ form.site = "CreateAMCScreen" /\ form.selectedDateField = "null" /\ ~form.busy
  /\ now.date - now.local \in {0, IF form.west THEN 1 ELSE 0 - 1}
  /\ form' = [form EXCEPT
       !.selectedDateField = field,
       !.tempDate = IF form[field] # EmptyString THEN NewDate(form[field])
                    ELSE IF field = "endDate" /\ form.startDate # EmptyString
                         THEN NewDate(form.startDate)
                         ELSE now]
  /\ UNCHANGED storeVars

\* A day of the calendar grid is pressed, lines 731-750: setDate keeps the
\* time of the day.  In the end date picker the days before the start date
\* are disabled.
selectDay(day) ==
  /\ form.site = "CreateAMCScreen" /\ form.selectedDateField # "null"
  /\ form' = IF /\ form.selectedDateField = "endDate" /\ form.startDate # EmptyString
                /\ day < NewDate(form.startDate).local
             THEN form
             ELSE [form EXCEPT !.tempDate = [date |-> day + (form.tempDate.date - form.tempDate.local),
                                             local |-> day]]
  /\ UNCHANGED storeVars

\* A confirmation that checks the end date only.
handleDateConfirm_NoStartCheck ==
  /\ form.site = "CreateAMCScreen" /\ form.selectedDateField # "null"
  /\ LET formattedDate == toISOString(form.tempDate.date) IN
     form' = IF /\ form.selectedDateField = "endDate" /\ form.startDate # EmptyString
                /\ ~compareDates(formattedDate, form.startDate).nan
                /\ compareDates(formattedDate, form.startDate).val < 0
             THEN form
             ELSE [form EXCEPT ![form.selectedDateField] = formattedDate, !.selectedDateField = "null"]
  /\ UNCHANGED storeVars

\* handleDateConfirm, lines 197-223: a date out of order shows an alert and
\* leaves the picker open.
handleDateConfirm ==
  /\ form.site = "CreateAMCScreen" /\ form.selectedDateField # "null"
  /\ LET formattedDate == toISOString(form.tempDate.date) IN
     form' = IF \/ /\ form.selectedDateField = "endDate" /\ form.startDate # EmptyString
                   /\ ~compareDates(formattedDate, form.startDate).nan
                   /\ compareDates(formattedDate, form.startDate).val < 0
                \/ /\ ~(form.selectedDateField = "endDate" /\ form.startDate # EmptyString)
                   /\ form.selectedDateField = "startDate" /\ form.endDate # EmptyString
                   /\ ~compareDates(form.endDate, formattedDate).nan
                   /\ compareDates(form.endDate, formattedDate).val < 0
             THEN form
             ELSE [form EXCEPT ![form.selectedDateField] = formattedDate, !.selectedDateField = "null"]
  /\ UNCHANGED storeVars

\* handleDateCancel, lines 225-228.
handleDateCancel ==
  /\ form.site = "CreateAMCScreen" /\ form.selectedDateField # "null"
  /\ form' = [form EXCEPT !.selectedDateField = "null"]
  /\ UNCHANGED storeVars

\* handleSubmit up to its await, lines 248-307, with the dates of the form
\* and the other fields as the user left them.
handleSubmit(fields) ==
  /\ form.site = "CreateAMCScreen" /\ form.selectedDateField = "null" /\ ~form.busy
  /\ form' = IF createAMCCheck([fields EXCEPT !.startDate = form.startDate, !.endDate = form.endDate]) # Absent
             THEN form
             ELSE [form EXCEPT !.busy = TRUE, !.pc = "createAMC",
                               !.request = [start_date |-> form.startDate, end_date |-> form.endDate]]
  /\ UNCHANGED storeVars

\* createAMC settles, lines 307-337: a failure leaves the form as it is, the
\* acknowledged success alert closes the screen (onBack).
createAMCSettled(closes) ==
  /\ form.site = "CreateAMCScreen" /\ form.pc = "createAMC"
  /\ form' = IF closes THEN NoForm ELSE [form EXCEPT !.busy = FALSE, !.pc = "idle"]
  /\ UNCHANGED storeVars

NextDates ==
  \/ Show("CreateAMCScreen")
  \/ \E field \in {"startDate", "endDate"}, date \in 2..4 :
       handleDateSelect(field, [date |-> date, local |-> 3])
  \/ \E day \in 1..5 : selectDay(day)
  \/ handleDateConfirm
  \/ handleDateCancel
  \/ \E fields \in [selectedCustomer : {EmptyString, <<"A">>}, startDate : {EmptyString},
                    endDate : {EmptyString}, amcType : {<<"A">>},
                    numberOfServices : {<<"2">>}, paymentAmount : {<<"2">>}] : handleSubmit(fields)
  \/ \E closes \in BOOLEAN : createAMCSettled(closes)

SpecDates == InitForms /\ [][NextDates]_vars

----
\* The screens that submit to the API, one shown at a time.
NextScreens ==
  \/ \E site \in {"createAMC", "createAMCType", "createCustomer", "applyLeave",
                   "applyTravelling", "deleteLeave", "sendOTP", "handleVerifyOTP"} : Open(site)
  \/ Close
  \/ Dismiss
  \/ \E fields \in FormInputs(form.site) : Submit(fields)
  \/ \E result \in Bodies : Resolve(result)
  \/ \E ok \in BOOLEAN : Refreshed(ok)
  \/ \E message \in {EmptyString, <<"N", "e", "t", "w", "o", "r", "k", " ", "r", "e", "q", "u", "e", "s", "t", " ", "f", "a", "i", "l", "e", "d">>} : Reject(message)
  \/ \E loader \in {"fetchLeaveTypes", "fetchTodayAttendance", "fetchCustomers", "fetchAMCTypes", "fetchAMCList"} : Load(loader)
  \/ Loaded
  \/ \E message \in {EmptyString, <<"N", "e", "t", "w", "o", "r", "k", " ", "r", "e", "q", "u", "e", "s", "t", " ", "f", "a", "i", "l", "e", "d">>} : LoadFailed(message)
  \/ Show("LoginScreen")
  \/ \E text \in {EmptyString, <<"9", "8", "7", "6", "5", "4", "3", "2", "1", "0">>, <<"a", "@", "b", ".", "c", "o">>} : setContact(text)
  \/ \E method \in {"phone", "email"} : setLoginMethod(method)
  \/ sendOTP
  \/ Change
  \/ handleResendOTP
  \/ \E otp \in FormInputs("handleVerifyOTP") : VerifyOTP(otp.otp)
  \/ \E outcome \in {"resolved", "rejected", "login"} : OtpSettled(outcome)
  \/ Tick
  \/ Show("MarkAttendanceScreen")
  \/ \E response \in [ok : BOOLEAN, has_checked_in : BOOLEAN, has_checked_out : BOOLEAN] :
       fetchTodayAttendanceSettled(response)
  \/ handleCaptureSelfie
  \/ handleCheckIn
  \/ handleCheckOut
  \/ \E response \in [ok : BOOLEAN, attendance : BOOLEAN, is_checked_in : BOOLEAN, is_checked_out : BOOLEAN] :
       AttendanceSettled(response)
  \/ AlertDismissed

SpecScreens == InitForms /\ [][NextScreens]_vars

----
\* C1: a getAuthToken call made when the last call on the token slot was
\* setAuthToken(t), and no continuation of an older overlapping durable read
\* has assigned the slot since, returns t; likewise getUserData after
\* setUserData(u).  This holds whether the durable write has succeeded, has
\* failed or is still pending.
C1_ReadAfterSet ==
  /\ (ret.op = "getAuthToken" /\ ret.at \in Tokens) =>
        (ret.st = "resolved" /\ ret.val = ret.at)
  /\ (ret.op = "getUserData" /\ ret.at \in Users) =>
        (ret.st = "resolved" /\ ret.val = ret.at)

\* getAuthToken returned t2 although the durable write of t2 was rejected.
C1_Witness ==
  /\ ret.op = "getAuthToken" /\ ret.at = "t2" /\ ret.val = "t2"
  /\ storage[AUTH_TOKEN_KEY] # "t2"
  /\ userData = "u2" /\ usrHist = "u2"
  /\ \A c \in AllCalls : Free(c)

\* C2: a getAuthToken call made after a clearAuthToken has completed (no
\* setAuthToken made since) returns null, and a getUserData call made after a
\* clearUserData has completed returns null, whatever the outcome of the
\* removeItem calls.
C2_NullAfterClear ==
  /\ (ret.op = "getAuthToken" /\ ret.at = "clear" /\ tokHist \notin Tokens) => ret.val = Null
  /\ (ret.op = "getUserData" /\ ret.at = "clear" /\ usrHist \notin Users) => ret.val = Null

\* C3: an authenticated operation whose getAuthToken yielded no token rejects
\* with the authentication-required error without issuing a fetch, and every
\* fetch issued carries 'Authorization: Token <token>' with the non-null
\* token the operation read.
C3_AuthRequired ==
  /\ \A c \in AllCalls :
       (calls[c].op \in AuthOps /\ calls[c].nf > 0) =>
          /\ calls[c].tok \notin {Null, Undefined, ""}
          /\ calls[c].req.auth = <<"Authorization", "Token " \o calls[c].tok>>
  /\ (ret.op \in AuthOps /\ ret.tok = Null) =>
        (ret.st = "rejected" /\ ret.val = AuthRequired /\ ret.nf = 0)
  /\ (ret.op \in AuthOps /\ ret.nf > 0) => ret.tok = "token"

\* updateComplaintStatus was called without a token and rejected before any fetch.
C3_Witness ==
  /\ ret.op = "updateComplaintStatus" /\ ret.st = "rejected"
  /\ ret.val = AuthRequired /\ ret.nf = 0 /\ ret.tok = Null

\* C4: logout always resolves, also when the remote call was rejected or
\* answered with a non-2xx status, and when it resolves the in-memory token
\* and user are null (no other call having assigned them meanwhile).
C4_LogoutClears ==
  ret.op = "logout" =>
    /\ ret.st = "resolved"
    /\ ~ret.intf => (authToken = Null /\ userData = Null)

\* logout resolved after its fetch was rejected; memory is cleared although
\* the durable removal of the token failed.
C4_Witness ==
  /\ ret.op = "logout" /\ ret.st = "resolved" /\ ret.net = "reject" /\ ~ret.intf
  /\ authToken = Null /\ userData = Null
  /\ storage[AUTH_TOKEN_KEY] \in Tokens

\* C5: when verifyOTP resolves after a 2xx body with token t and user u (no
\* other call having assigned the credential meanwhile), getAuthToken answers
\* t and getUserData answers u from memory, and the value resolved is the
\* body received.
C5_LoginStores ==
  (/\ ret.op = "verifyOTP" /\ ret.st = "resolved"
   /\ ret.rcv.token \in Tokens /\ ret.rcv.user \in Users) =>
     /\ ret.body = ret.rcv
     /\ ~ret.intf => /\ TokenHit /\ authToken = ret.rcv.token
                     /\ Truthy(userData) /\ userData = ret.rcv.user

\* verifyOTP resolved with {token: t2, user: u2} over a store that held t1/u1.
C5_Witness ==
  /\ ret.op = "verifyOTP" /\ ret.st = "resolved" /\ ~ret.intf
  /\ ret.rcv = [token |-> "t2", user |-> "u2"]
  /\ authToken = "t2" /\ userData = "u2"
  /\ storage[AUTH_TOKEN_KEY] = "t1"

\* C6: no step of a verifyOTP call that received a 2xx body without a token
\* changes the credential store (memory or durable).
C6_NoPartialSession ==
  [][\A c \in AllCalls :
       (/\ calls[c].op = "verifyOTP"
        /\ calls'[c] # calls[c]
        /\ ~Truthy(calls'[c].rcv.token) /\ ~Truthy(ret'.rcv.token))
       => UNCHANGED <<authToken, userData, storage>>]_vars

C8_CustomerMessageWins ==
  (/\ form.pc = "done" /\ form.site = "createCustomer"
   /\ form.result.success = "false"
   /\ form.result.message # Absent
   /\ includes(toLowerCase(form.result.message), SUCCESS)) =>
     form.alert.kind = "success"

\* C9: a body with success false whose message and msg do not contain
\* 'success' (or are absent) is shown as a failure by the create-AMC,
\* create-AMC-type and create-customer handlers.
C9_ExplicitFalseFails ==
  (/\ form.pc = "done" /\ form.site \in {"createAMC", "createAMCType", "createCustomer"}
   /\ form.result.success = "false"
   /\ \A text \in {form.result.message, form.result.msg} :
        text = Absent \/ ~includes(toLowerCase(text), SUCCESS)) =>
     form.alert.kind = "error"

\* C10: a body shown as a failure is shown with its message, else its msg,
\* else its error, else the fixed failure text of the handler.
C10_FailureMessage ==
  LET fallback == CASE form.site = "createAMC" -> AMC_FAILED
                    [] form.site = "createAMCType" -> AMC_TYPE_FAILED
                    [] form.site = "createCustomer" -> CUSTOMER_FAILED
                    [] form.site = "applyLeave" -> LEAVE_FAILED
                    [] form.site = "applyTravelling" -> TRAVEL_FAILED
                    [] form.site = "deleteLeave" -> DELETE_FAILED
  IN (/\ form.pc = "done" /\ form.result.success # "none"
      /\ form.site \in {"createAMC", "createAMCType", "createCustomer", "applyLeave", "applyTravelling"}
      /\ form.alert.kind = "error") =>
        form.alert.msg = Or(form.result.message, Or(form.result.msg, Or(form.result.error, fallback)))

C12_OnePolicy ==
  LET text == IF TruthyText(form.result.message) THEN form.result.message ELSE form.result.msg
      verdict == IF \/ text # Absent /\ includes(toLowerCase(text), SUCCESS)
                    \/ form.result.success \in {"true", "undefined"}
                 THEN "success" ELSE "error"
  IN (/\ form.pc = "done" /\ form.result.success # "none"
      /\ form.site \in {"createCustomer", "createAMC", "createAMCType", "applyLeave",
                        "applyTravelling", "deleteLeave"}) =>
       form.alert.kind = verdict

\* C13: an operation whose request gets a non-2xx response rejects with the
\* error field of the body when the body has one, and with the fixed fallback
\* message of the operation when the field is absent or the body is not JSON.
C13_ErrorOrFallback ==
  (ret.resp.kind = "notok" /\ ret.op \in AuthOps \cup OtpOps \cup {"verifyOTP"}) =>
     /\ ret.st = "rejected"
     /\ IF ret.resp.parses /\ Truthy(ret.resp.error)
        THEN ret.val = ret.resp.error
        ELSE IF ret.op \in AuthOps
             THEN ret.val = Fallback(ret.op)
             ELSE ret.val \notin {"", SyntaxError}

\* C17: a call of a client operation issues at most one network request,
\* whatever its request settles to.
C17_NoRetry ==
  /\ \A c \in AllCalls : calls[c].nf <= 1
  /\ ret.nf <= 1

\* An authenticated operation whose request failed in transport has rejected
\* after that one request.
C17_Witness ==
  /\ ret.op \in AuthOps /\ ret.st = "rejected" /\ ret.resp.kind = "reject" /\ ret.nf = 1

\* C14: once a getAuthToken call has returned a token, every getAuthToken call
\* made afterwards returns that token, until a setAuthToken or clearAuthToken
\* call is made.
C14_TokenSticks ==
  (ret.op = "getAuthToken" /\ ret.seen \in Tokens) => ret.val = ret.seen

C16_ValidationFirst ==
  LET f == form.fields
      filled(x) == \E i \in 1..Len(x) : x[i] # " "
      digits(x) == \A i \in 1..Len(x) : x[i] \in {"0", "1", "2", "3", "4", "5", "6", "7", "8", "9"}
      positive(x) == x # <<>> /\ digits(x) /\ \E i \in 1..Len(x) : x[i] # "0"
      rank(ch) == CHOOSE n \in 1..11 : <<"-", "0", "1", "2", "3", "4", "5", "6", "7", "8", "9">>[n] = ch
      before(a, b) == \E k \in 1..Len(a) : /\ \A i \in 1..(k - 1) : a[i] = b[i]
                                           /\ rank(a[k]) < rank(b[k])
      phone(x) == Len(x) = 10 /\ digits(x) /\ x[1] \in {"6", "7", "8", "9"}
      email(x) == /\ \A i \in 1..Len(x) : x[i] # " "
                  /\ Cardinality({i \in 1..Len(x) : x[i] = "@"}) = 1
                  /\ \E i, j \in 1..Len(x) : x[i] = "@" /\ x[j] = "." /\ 1 < i /\ i + 1 < j /\ j < Len(x)
      valid ==
        CASE form.site = "createAMC" ->
               /\ filled(f.selectedCustomer) /\ filled(f.startDate) /\ filled(f.endDate)
               /\ ~before(f.endDate, f.startDate)
               /\ filled(f.amcType) /\ positive(f.numberOfServices) /\ positive(f.paymentAmount)
          [] form.site = "createAMCType" -> filled(f.newAMCTypeName)
          [] form.site = "createCustomer" ->
               /\ filled(f.customerSiteName) /\ filled(f.siteId) /\ filled(f.siteAddress)
               /\ filled(f.contactPersonName) /\ filled(f.city)
               /\ f.mobileError = Absent /\ f.emailError = Absent
          [] form.site = "applyLeave" ->
               /\ filled(f.leaveType) /\ filled(f.fromDate) /\ filled(f.toDate) /\ filled(f.reason)
               /\ f.emailError = Absent
          [] form.site = "sendOTP" ->
               IF f.loginMethod = "phone" THEN phone(f.contact) ELSE email(f.contact)
          [] form.site = "handleVerifyOTP" -> Len(f.otp) = 6 /\ digits(f.otp)
  IN (/\ form.site \in {"createAMC", "createAMCType", "createCustomer", "applyLeave", "sendOTP",
                        "handleVerifyOTP"}
      /\ form.pc \in {"calling", "refreshing", "done"} \/ form.busy) => valid

\* A create-AMC form whose end date is before its start date was submitted:
\* the alert is shown, nothing is called and the busy flag is not set.
C16_Witness ==
  /\ form.site = "createAMC" /\ form.pc = "idle" /\ ~form.busy
  /\ "startDate" \in DOMAIN form.fields
  /\ form.fields.startDate = <<"2", "0", "2", "5", "-", "0", "2", "-", "0", "1">>
  /\ form.fields.endDate = <<"2", "0", "2", "5", "-", "0", "1", "-", "1", "0">>
  /\ form.alert = [kind |-> "error", msg |-> ValidationAlerts("createAMC")[4]]

\* C18: getAuthToken and getUserData never reject; when the durable read
\* fails, or the stored user_data does not parse, they resolve to null.
C18_GetsNeverReject ==
  /\ ret.op \in {"getAuthToken", "getUserData"} => ret.st = "resolved"
  /\ (ret.op \in {"getAuthToken", "getUserData"} /\ ret.net = "reject") => ret.val = Null
  /\ (ret.op = "getUserData" /\ ret.net = "resolve" /\ storage[USER_DATA_KEY] = Corrupt) =>
       ret.val = Null

\* getAuthToken resolved to null after its read of a stored token failed.
C18_Witness ==
  /\ ret.op = "getAuthToken" /\ ret.net = "reject" /\ ret.st = "resolved" /\ ret.val = Null
  /\ storage[AUTH_TOKEN_KEY] = "t1" /\ storage[USER_DATA_KEY] = Corrupt

\* C20 as stated: of two getAuthToken calls in progress together on an empty
\* cache, with no set or clear meanwhile, the one that returns first returns
\* what is stored (null when nothing is) and leaves it in the cache.
C20_BothReturnStored ==
  (/\ ret.op = "getAuthToken" /\ ret.net # "none"
   /\ \E d \in CallIds : calls[d].op = "getAuthToken" /\ calls[d].pc = "getItem") =>
     (ret.val = storage[AUTH_TOKEN_KEY] /\ authToken = storage[AUTH_TOKEN_KEY])

\* C20, amended: a getAuthToken call started on an empty cache performs its
\* own durable read, also while the read of another call is pending; with
\* no set or clear meanwhile, every call whose read succeeds returns what is
\* stored (null when nothing is) and leaves it in the cache.
C20_ReadsAreIdempotent ==
  [][/\ \A c \in CallIds :
          (Free(c) /\ calls'[c].op = "getAuthToken") =>
             (~Truthy(authToken) /\ calls'[c].pc = "getItem")
     /\ (ret'.op = "getAuthToken" /\ ret'.net = "resolve") =>
          (ret'.val = storage'[AUTH_TOKEN_KEY] /\ authToken' = storage'[AUTH_TOKEN_KEY])]_vars

\* The first of two reads in progress together has returned the stored token.
C20_Witness ==
  /\ ret.op = "getAuthToken" /\ ret.net = "resolve" /\ ret.val = "t1" /\ authToken = "t1"
  /\ \E d \in CallIds : calls[d].op = "getAuthToken" /\ calls[d].pc = "getItem"

\* C19: when an API call made by a screen rejects with an error that has a
\* message, the screen shows an error alert with that message.  (The remote
\* call of logout is made by no screen handler of the model.)
C19_ErrorsShown ==
  (form.pc = "done" /\ form.error # Absent /\ TruthyText(form.error)) =>
     form.alert = Alert("error", form.error)

\* C21: logout issues its request only when getAuthToken gave it a token,
\* with that token in the Authorization header and while the token is still
\* in memory; it starts clearing either right after a read that gave no
\* token, having issued no request, or after its one request has settled.
C21_NotifyThenClear ==
  [][LET old == calls[Session]
         new == calls'[Session]
     IN /\ (new.op = "logout" /\ new.pc = "fetch" /\ old.pc # "fetch") =>
              /\ Truthy(new.tok) /\ new.tok \in Tokens
              /\ new.req = [url |-> Endpoint("logout"), method |-> "POST",
                            auth |-> <<"Authorization", "Token " \o new.tok>>, body |-> {}]
              /\ new.nf = 1
              /\ authToken' = new.tok
        /\ (new.op = "logout" /\ new.pc = "getItem" /\ old.pc # "getItem") =>
              (~Truthy(authToken) /\ new.nf = 0)
        /\ (new.op = "logout" /\ new.pc = "removeToken" /\ old.pc = "getItem") =>
              (new.nf = 0 /\ authToken' = Null)
        /\ (new.op = "logout" /\ new.pc = "removeToken" /\ old.pc = "fetch") =>
              (new.nf = 1 /\ authToken' = Null)
        /\ (new.op = "logout" /\ new.pc = "removeToken") => old.pc \in {"getItem", "fetch", "removeToken"}]_vars

\* logout read the stored token and has its request in flight, the token
\* still in memory.
C21_Witness ==
  /\ calls[Session].op = "logout" /\ calls[Session].pc = "fetch"
  /\ calls[Session].req.auth = <<"Authorization", "Token t1">>
  /\ authToken = "t1" /\ storage[AUTH_TOKEN_KEY] = "t1" /\ tokHist = "none"

\* C22: generateOTP and resendOTP, answered 2xx with a body that parses,
\* resolve with that body as it was received; no step of theirs changes the
\* credentials in memory or in durable storage, whatever the body holds.
C22_OtpPassThrough ==
  [][/\ (calls[Session].op = "none" /\ calls'[Session].op \in OtpOps) =>
          UNCHANGED <<authToken, userData, storage>>
     /\ (calls[Session].op \in OtpOps /\ calls'[Session].op = "none") =>
          /\ UNCHANGED <<authToken, userData, storage>>
          /\ ret'.op = calls[Session].op
          /\ (ret'.resp.kind = "ok" /\ ret'.resp.parses) =>
               /\ ret'.st = "resolved"
               /\ ret'.body = [token |-> ret'.resp.token, user |-> ret'.resp.user]]_vars

\* generateOTP resolved with a body that holds a token and a user; nothing
\* was stored.
C22_Witness ==
  /\ ret.op = "generateOTP" /\ ret.st = "resolved"
  /\ ret.body = [token |-> "t1", user |-> "u1"]
  /\ authToken = Null /\ userData = Null
  /\ storage[AUTH_TOKEN_KEY] = Null /\ storage[USER_DATA_KEY] = Null

\* C23: the body of a generateOTP, verifyOTP or resendOTP request holds the
\* contact under the key email when the channel is 'email' and under
\* phone_number otherwise, never under both; the body of verifyOTP also holds
\* the code under otp_code.
C23_ContactKey ==
  \A c \in AllCalls :
    (calls[c].op \in OtpOps \cup {"verifyOTP"} /\ calls[c].pc = "fetch") =>
       LET args == calls[c].arg
           body == calls[c].req.body
           keys == {entry[1] : entry \in body}
       IN /\ args.method = "email" => (<<"email", args.contact>> \in body /\ "phone_number" \notin keys)
          /\ args.method # "email" => (<<"phone_number", args.contact>> \in body /\ "email" \notin keys)
          /\ calls[c].op = "verifyOTP" => <<"otp_code", args.otp_code>> \in body
          /\ Cardinality(body) = Cardinality(keys)

\* verifyOTP is in flight for a phone number.
C23_Witness ==
  /\ calls[Session].op = "verifyOTP" /\ calls[Session].pc = "fetch"
  /\ calls[Session].req.body = {<<"otp_code", "123456">>, <<"phone_number", "9876543210">>}

\* C24: while the App is logged in and no logout is in progress, the
\* credential store holds a token, in memory or in durable storage.
C24_LoggedInHasToken ==
  (app.isLoggedIn /\ calls[Session].op # "logout") =>
     (Truthy(authToken) \/ Truthy(storage[AUTH_TOKEN_KEY]))

\* C25: when a clearAuthToken call has just completed, its removal done, and
\* every getAuthToken read, each started before that call, has settled, the
\* token in memory is null, so that the next getAuthToken does not answer
\* with the cleared token.
C25_ClearedStaysCleared ==
  (/\ ret.op = "clearAuthToken" /\ storage[AUTH_TOKEN_KEY] = Null
   /\ \A c \in AllCalls : Free(c)) => authToken = Null

\* C26: in the login screen an OTP delivery request, generateOTP or resendOTP,
\* is issued only when otpTimer is 0.
C26_NoRequestWhileTimer ==
  [][(form.site = "LoginScreen" /\ form.pc = "idle" /\ form'.pc \in {"generateOTP", "resendOTP"})
       => form.otpTimer = 0]_vars

\* C27: once a successful send or resend has set otpTimer to 60 and
\* canResendOtp to false, otpTimer comes down to 0 with canResendOtp true
\* again, for as long as the screen is shown.
C27_TimerRunsOut ==
  (form.site = "LoginScreen" /\ form.otpTimer = 60 /\ ~form.canResendOtp)
    ~> (form.site = "none" \/ (form.otpTimer = 0 /\ form.canResendOtp))

\* C28: once a check-in has succeeded on the attendance screen, hasCheckedIn
\* is true for as long as the screen is shown.
C28_CheckedInStays ==
  (form.site = "MarkAttendanceScreen" /\ form.checkedIn) => form.hasCheckedIn

C30_BusyResetOnSettle ==
  [][LET Submitting(f) ==
           /\ f.site \in {"LoginScreen", "MarkAttendanceScreen", "sendOTP", "handleVerifyOTP",
                          "createCustomer", "createAMC", "applyLeave"}
           /\ f.pc \in {"calling", "generateOTP", "resendOTP", "verifyOTP",
                        "checkInAttendance", "checkOutAttendance"}
     IN /\ Submitting(form) => form.busy
        /\ (Submitting(form) /\ ~Submitting(form')) => ~form'.busy]_vars

C30_Witness ==
  /\ form.site = "applyLeave" /\ form.pc = "done" /\ form.error # Absent /\ ~form.busy

====
